---- MODULE Spec2Model ----
(***************************************************************************)
(* Map-rendering pipeline of the leaflet map server: request validation    *)
(* (HttpServer), canvas creation, placeholder compositing and world-to-    *)
(* pixel mapping (RenderEngine).                                           *)
(*                                                                         *)
(* Conventions.  A std::string is a sequence of one-character strings, so  *)
(* that it can be indexed and measured as the code does.  A double that    *)
(* the code only compares or maps linearly is an integer number of         *)
(* degrees.  A pixel is <<r, g, b, a>>; an RGBA byte buffer of n pixels    *)
(* is a sequence of n pixels (its byte length is 4*n, pixel (x,y) of a     *)
(* canvas w wide sits at sequence index y*w + x + 1).                      *)
(***************************************************************************)
EXTENDS Integers, Sequences, FiniteSets, TLC

VARIABLES
    m_config,        \* ServerConfig held by HttpServer and RenderEngine
    m_bInitialized,  \* RenderEngine::m_bInitialized
    m_strError,      \* RenderEngine::m_strError
    hasNlohmannJson, \* whether the build defines HAS_NLOHMANN_JSON
    op,              \* the call that has just returned ("idle": none)
    args,            \* its arguments
    out,             \* its return value, out-parameters and effects
    threads,         \* per request thread: where its PngEncoder call stands
    encoders,        \* every PngEncoder object constructed so far
    heap,            \* row-pointer arrays allocated and FILE handles open
    m_pDbManager,    \* the DatabaseManager: its pool and the database file
    queries,         \* per request thread: where its DatabaseManager call stands
    server,          \* the HttpServer's running flag, worker list and caller
    requests         \* per request thread: where its /generate request stands

vars == <<m_config, m_bInitialized, m_strError, hasNlohmannJson, op, args, out,
          threads, encoders, heap, m_pDbManager, queries, server, requests>>

\* the request threads of the server that may call the encoder at once
Threads == {1, 2}

\* a thread outside PngEncoder::EncodeToMemory and PngEncoder::SaveToFile
IdleFrame ==
    [pc |-> "idle", call |-> "", caller |-> "", encoder |-> 0, rows |-> FALSE,
     file |-> FALSE, ret |-> FALSE, message |-> ""]

\* no encoder call has been made
NoPngCalls ==
    /\ threads = [t \in Threads |-> IdleFrame]
    /\ encoders = <<>>
    /\ heap = [rowArrays |-> 0, openFiles |-> 0]

\* a thread outside the DatabaseManager
QueryIdle ==
    [pc |-> "idle", query |-> "", layerId |-> "", conn |-> 0, obtained |-> 0,
     released |-> 0, result |-> <<>>]

\* a thread outside HttpServer::HandleGenerateRequest
RequestIdle == [pc |-> "idle", request |-> <<>>, ret |-> "", failure |-> "", response |-> <<>>]

\* an HttpServer that was constructed and never started
ServerConstructed ==
    [m_bRunning |-> FALSE, m_vecWorkerThreads |-> <<>>, m_pServer |-> "nullptr",
     m_strError |-> "", pc |-> "idle", last |-> "HttpServer", ret |-> FALSE,
     starts |-> 0, created |-> 0, joined |-> 0, terminated |-> FALSE]

\* no database call, no server call and no /generate request has been made;
\* the DatabaseManager is one whose pool could not be filled
NoServerCalls ==
    /\ m_pDbManager = [m_poolSize |-> 1, m_initialized |-> FALSE, m_connectionPool |-> <<>>,
             opened |-> 0, table |-> <<>>]
    /\ queries = [t \in Threads |-> QueryIdle]
    /\ server = ServerConstructed
    /\ requests = [t \in Threads |-> RequestIdle]

----------------------------------------------------------------------------
(* Bounds of the model *)

\* largest canvas side drawn from the general input sets
MaxDim == 8
\* longest layer list drawn from the input sets
MaxLayers == 2
\* the small configured image maximum (the other configuration is the default)
SmallMax == 3

(* Program constants *)

DefaultMaxImageWidth == 4096
DefaultMaxImageHeight == 4096

----------------------------------------------------------------------------
(* Characters and strings *)

Digits == {"0", "1", "2", "3", "4", "5", "6", "7", "8", "9"}
LowerHex == {"a", "b", "c", "d", "e", "f"}
UpperHex == {"A", "B", "C", "D", "E", "F"}
Lower == LowerHex \cup {"g", "h", "i", "j", "k", "l", "m", "n", "o", "p", "q",
                        "r", "s", "t", "u", "v", "w", "x", "y", "z"}
Upper == UpperHex \cup {"G", "H", "I", "J", "K", "L", "M", "N", "O", "P", "Q",
                        "R", "S", "T", "U", "V", "W", "X", "Y", "Z"}

\* (c >= '0' && c <= '9') || (c >= 'a' && c <= 'f') || (c >= 'A' && c <= 'F')
IsHexChar(c) == c \in Digits \/ c \in LowerHex \/ c \in UpperHex

\* (c >= 'a' && c <= 'z') || (c >= 'A' && c <= 'Z') || (c >= '0' && c <= '9')
\*   || c == '_' || c == '-'
IsLayerNameChar(c) ==
    c \in Lower \/ c \in Upper \/ c \in Digits \/ c = "_" \/ c = "-"

\* std::string::substr(pos, n), pos counted from 0
Substr(s, pos, n) ==
    IF pos >= Len(s) THEN <<>>
    ELSE SubSeq(s, pos + 1, IF pos + n > Len(s) THEN Len(s) ELSE pos + n)

\* std::string::substr(pos)
SubstrFrom(s, pos) == Substr(s, pos, Len(s))

----------------------------------------------------------------------------
(* BoundingBox *)

BoundingBox(minX, minY, maxX, maxY) ==
    [m_dMinX |-> minX, m_dMinY |-> minY, m_dMaxX |-> maxX, m_dMaxY |-> maxY]

\* <= in place of <
IsValid_nonstrict(bbox) == bbox.m_dMinX <= bbox.m_dMaxX /\ bbox.m_dMinY <= bbox.m_dMaxY

IsValid(bbox) == bbox.m_dMinX < bbox.m_dMaxX /\ bbox.m_dMinY < bbox.m_dMaxY

Width(bbox) == bbox.m_dMaxX - bbox.m_dMinX

Height(bbox) == bbox.m_dMaxY - bbox.m_dMinY

----------------------------------------------------------------------------
(* HttpServer::ValidateMapRequestParameters *)

\* the hexadecimal loop over color[1..]: TRUE when every character passes
AllHexFrom(color, i) ==
    \A k \in i..Len(color) : IsHexChar(color[k])

\* the layer loop: the error of the first offending layer, <<>> when none
RECURSIVE LayerNameError(_, _)
LayerNameError(layers, i) ==
    IF i > Len(layers) THEN <<>>
    ELSE IF layers[i] = <<>> THEN <<"Layer names cannot be empty">>
    ELSE IF \E k \in 1..Len(layers[i]) : ~IsLayerNameChar(layers[i][k])
         THEN <<"Layer name '", layers[i],
                "' contains invalid characters. Only letters, numbers, underscores and hyphens are allowed">>
    ELSE LayerNameError(layers, i + 1)

\* latitude range checked before longitude range
ValidateMapRequestParameters_swapped(request, config) ==
    LET fail(msg) == [ret |-> FALSE, strError |-> msg]
        color == request.m_strBackgroundColor
    IN  IF ~IsValid(request.m_bbox)
        THEN fail(<<"Invalid bounding box. minX must be less than maxX and minY less than maxY">>)
        ELSE IF request.m_bbox.m_dMinY < -90 \/ request.m_bbox.m_dMaxY > 90
        THEN fail(<<"Latitude values must be between -90 and 90 degrees">>)
        ELSE IF request.m_bbox.m_dMinX < -180 \/ request.m_bbox.m_dMaxX > 180
        THEN fail(<<"Longitude values must be between -180 and 180 degrees">>)
        ELSE IF request.m_nWidth <= 0 \/ request.m_nHeight <= 0
        THEN fail(<<"Image width and height must be positive">>)
        ELSE IF request.m_nWidth > config.m_nMaxImageWidth
        THEN fail(<<"Image width exceeds maximum allowed value of ",
                    config.m_nMaxImageWidth>>)
        ELSE IF request.m_nHeight > config.m_nMaxImageHeight
        THEN fail(<<"Image height exceeds maximum allowed value of ",
                    config.m_nMaxImageHeight>>)
        ELSE IF color # <<>> /\ (color[1] # "#" \/ (Len(color) # 7 /\ Len(color) # 4))
        THEN fail(<<"Background color must be in format #RRGGBB or #RGB">>)
        ELSE IF color # <<>> /\ ~AllHexFrom(color, 2)
        THEN fail(<<"Background color contains invalid hexadecimal characters">>)
        ELSE IF LayerNameError(request.m_vecLayers, 1) # <<>>
        THEN fail(LayerNameError(request.m_vecLayers, 1))
        ELSE [ret |-> TRUE, strError |-> <<>>]

\* width limit compared with >= instead of >
ValidateMapRequestParameters_offByOne(request, config) ==
    LET fail(msg) == [ret |-> FALSE, strError |-> msg]
        color == request.m_strBackgroundColor
    IN  IF ~IsValid(request.m_bbox)
        THEN fail(<<"Invalid bounding box. minX must be less than maxX and minY less than maxY">>)
        ELSE IF request.m_bbox.m_dMinX < -180 \/ request.m_bbox.m_dMaxX > 180
        THEN fail(<<"Longitude values must be between -180 and 180 degrees">>)
        ELSE IF request.m_bbox.m_dMinY < -90 \/ request.m_bbox.m_dMaxY > 90
        THEN fail(<<"Latitude values must be between -90 and 90 degrees">>)
        ELSE IF request.m_nWidth <= 0 \/ request.m_nHeight <= 0
        THEN fail(<<"Image width and height must be positive">>)
        ELSE IF request.m_nWidth >= config.m_nMaxImageWidth
        THEN fail(<<"Image width exceeds maximum allowed value of ",
                    config.m_nMaxImageWidth>>)
        ELSE IF request.m_nHeight > config.m_nMaxImageHeight
        THEN fail(<<"Image height exceeds maximum allowed value of ",
                    config.m_nMaxImageHeight>>)
        ELSE IF color # <<>> /\ (color[1] # "#" \/ (Len(color) # 7 /\ Len(color) # 4))
        THEN fail(<<"Background color must be in format #RRGGBB or #RGB">>)
        ELSE IF color # <<>> /\ ~AllHexFrom(color, 2)
        THEN fail(<<"Background color contains invalid hexadecimal characters">>)
        ELSE IF LayerNameError(request.m_vecLayers, 1) # <<>>
        THEN fail(LayerNameError(request.m_vecLayers, 1))
        ELSE [ret |-> TRUE, strError |-> <<>>]

\* returns the bool and the strError out-parameter (<<>>: left untouched)
ValidateMapRequestParameters(request, config) ==
    LET fail(msg) == [ret |-> FALSE, strError |-> msg]
        color == request.m_strBackgroundColor
    IN  IF ~IsValid(request.m_bbox)
        THEN fail(<<"Invalid bounding box. minX must be less than maxX and minY less than maxY">>)
        ELSE IF request.m_bbox.m_dMinX < -180 \/ request.m_bbox.m_dMaxX > 180
        THEN fail(<<"Longitude values must be between -180 and 180 degrees">>)
        ELSE IF request.m_bbox.m_dMinY < -90 \/ request.m_bbox.m_dMaxY > 90
        THEN fail(<<"Latitude values must be between -90 and 90 degrees">>)
        ELSE IF request.m_nWidth <= 0 \/ request.m_nHeight <= 0
        THEN fail(<<"Image width and height must be positive">>)
        ELSE IF request.m_nWidth > config.m_nMaxImageWidth
        THEN fail(<<"Image width exceeds maximum allowed value of ",
                    config.m_nMaxImageWidth>>)
        ELSE IF request.m_nHeight > config.m_nMaxImageHeight
        THEN fail(<<"Image height exceeds maximum allowed value of ",
                    config.m_nMaxImageHeight>>)
        ELSE IF color # <<>> /\ (color[1] # "#" \/ (Len(color) # 7 /\ Len(color) # 4))
        THEN fail(<<"Background color must be in format #RRGGBB or #RGB">>)
        ELSE IF color # <<>> /\ ~AllHexFrom(color, 2)
        THEN fail(<<"Background color contains invalid hexadecimal characters">>)
        ELSE IF LayerNameError(request.m_vecLayers, 1) # <<>>
        THEN fail(LayerNameError(request.m_vecLayers, 1))
        ELSE [ret |-> TRUE, strError |-> <<>>]

----------------------------------------------------------------------------
(* std::stoi(str, nullptr, 16) and the uint8_t conversion *)

\* the element of a one-element set; The({e(x) : x \in {v}}) is e(v) with v
\* computed once
The(S) == CHOOSE x \in S : TRUE

\* value of one hexadecimal digit
HexValue(c) ==
    CASE c = "0" -> 0 [] c = "1" -> 1 [] c = "2" -> 2 [] c = "3" -> 3
      [] c = "4" -> 4 [] c = "5" -> 5 [] c = "6" -> 6 [] c = "7" -> 7
      [] c = "8" -> 8 [] c = "9" -> 9
      [] c \in {"a", "A"} -> 10 [] c \in {"b", "B"} -> 11
      [] c \in {"c", "C"} -> 12 [] c \in {"d", "D"} -> 13
      [] c \in {"e", "E"} -> 14 [] c \in {"f", "F"} -> 15

\* strtol skips leading white space
RECURSIVE SkipSpace(_)
SkipSpace(s) ==
    IF s # <<>> /\ Head(s) = " " THEN SkipSpace(Tail(s)) ELSE s

\* the longest prefix of hexadecimal digits, folded into its value;
\* acc = -1 while no digit has been read
RECURSIVE HexPrefixValue(_, _)
HexPrefixValue(s, acc) ==
    IF s = <<>> \/ ~IsHexChar(Head(s)) THEN acc
    ELSE HexPrefixValue(Tail(s), (IF acc < 0 THEN 0 ELSE acc) * 16 + HexValue(Head(s)))

\* strtol accepts one sign
AfterSign(t) == IF t # <<>> /\ Head(t) \in {"+", "-"} THEN Tail(t) ELSE t

\* strtol with base 16 accepts a 0x or 0X prefix that a digit follows
AfterPrefix(u) ==
    IF Len(u) >= 3 /\ u[1] = "0" /\ u[2] \in {"x", "X"} /\ IsHexChar(u[3])
    THEN SubSeq(u, 3, Len(u)) ELSE u

\* std::stoi(s, nullptr, 16): white space, an optional sign, an optional 0x
\* prefix, then the digits; throws std::invalid_argument when no digit is read
StoiHex(s) ==
    The({ IF n < 0 THEN [thrown |-> TRUE, value |-> 0]
          ELSE [thrown |-> FALSE, value |-> IF t # <<>> /\ Head(t) = "-" THEN -n ELSE n] :
          t \in {SkipSpace(s)},
          n \in {HexPrefixValue(AfterPrefix(AfterSign(SkipSpace(s))), -1)} })

\* static_cast<uint8_t>(int), and the implicit int -> uint8_t conversion
ToUint8(n) == n % 256

\* the three channel conversions of hex.substr(0,2), (2,2), (4,2), in order
ParseRGB(hex) ==
    The({ [thrown |-> r.thrown \/ g.thrown \/ b.thrown,
           r |-> ToUint8(r.value), g |-> ToUint8(g.value), b |-> ToUint8(b.value)] :
          r \in {StoiHex(Substr(hex, 0, 2))},
          g \in {StoiHex(Substr(hex, 2, 2))},
          b \in {StoiHex(Substr(hex, 4, 2))} })

----------------------------------------------------------------------------
(* RenderEngine::CreateBlankImage *)

\* strError value of a call that did not call SetError
NoSetError == "(SetError not called)"

\* a canvas that is refused when the colour is not '#' and 6 or 8 characters
CreateBlankImage_checkingColour(nWidth, nHeight, strBgColor) ==
    IF nWidth <= 0 \/ nHeight <= 0
    THEN [ret |-> "false", strError |-> "Invalid image dimensions",
          allocated |-> FALSE, vecImageData |-> <<>>]
    ELSE The({
         LET parsed == strBgColor # <<>> /\ strBgColor[1] = "#"
                       /\ (Len(hex) = 6 \/ Len(hex) = 8)
             thrown == parsed /\ (rgb.thrown \/ (Len(hex) = 8 /\ alpha.thrown))
         IN  IF ~parsed
             THEN [ret |-> "false", strError |-> "Invalid background color",
                   allocated |-> FALSE, vecImageData |-> <<>>]
             ELSE IF thrown
             THEN [ret |-> "raised", strError |-> NoSetError,
                   allocated |-> FALSE, vecImageData |-> <<>>]
             ELSE [ret |-> "true", strError |-> NoSetError, allocated |-> TRUE,
                   vecImageData |->
                       [i \in 1..(nWidth * nHeight) |->
                           <<rgb.r, rgb.g, rgb.b,
                             IF Len(hex) = 8 THEN ToUint8(alpha.value) ELSE 255>>]] :
         hex \in {SubstrFrom(strBgColor, 1)},
         rgb \in {ParseRGB(SubstrFrom(strBgColor, 1))},
         alpha \in {StoiHex(Substr(SubstrFrom(strBgColor, 1), 6, 2))} })

CreateBlankImage(nWidth, nHeight, strBgColor) ==
    IF nWidth <= 0 \/ nHeight <= 0
    THEN [ret |-> "false", strError |-> "Invalid image dimensions",
          allocated |-> FALSE, vecImageData |-> <<>>]
    ELSE The({
         LET parsed == strBgColor # <<>> /\ strBgColor[1] = "#"
                       /\ (Len(hex) = 6 \/ Len(hex) = 8)
             thrown == parsed /\ (rgb.thrown \/ (Len(hex) = 8 /\ alpha.thrown))
         IN  IF thrown
             THEN [ret |-> "raised", strError |-> NoSetError,
                   allocated |-> FALSE, vecImageData |-> <<>>]
             ELSE [ret |-> "true", strError |-> NoSetError, allocated |-> TRUE,
                   vecImageData |->
                       The({ [i \in 1..(nWidth * nHeight) |-> px] :
                             px \in {IF parsed
                                     THEN <<rgb.r, rgb.g, rgb.b,
                                            IF Len(hex) = 8 THEN ToUint8(alpha.value)
                                            ELSE 255>>
                                     ELSE <<255, 255, 255, 255>>} })] :
         hex \in {SubstrFrom(strBgColor, 1)},
         rgb \in {ParseRGB(SubstrFrom(strBgColor, 1))},
         alpha \in {StoiHex(Substr(SubstrFrom(strBgColor, 1), 6, 2))} })

----------------------------------------------------------------------------
(* RenderEngine::DrawFeatures *)

LayerStyle(fill, stroke, strokeWidth, opacity) ==
    [m_strFillColor |-> fill, m_strStrokeColor |-> stroke,
     m_nStrokeWidth |-> strokeWidth, m_nOpacity |-> opacity]

ColorCCCCCC == <<"#", "c", "c", "c", "c", "c", "c">>
Color000000 == <<"#", "0", "0", "0", "0", "0", "0">>

\* the member initialisers of LayerStyle
DefaultLayerStyle == LayerStyle(ColorCCCCCC, Color000000, 1, 255)

Max(a, b) == IF a >= b THEN a ELSE b
Min(a, b) == IF a <= b THEN a ELSE b

\* the placeholder rectangle [startX..endX] x [startY..endY]
PlaceholderRect(nWidth, nHeight) ==
    LET centerX == nWidth \div 2
        centerY == nHeight \div 2
        rectWidth == nWidth \div 4
        rectHeight == nHeight \div 4
        startX == centerX - rectWidth \div 2
        startY == centerY - rectHeight \div 2
    IN  [startX |-> Max(0, startX), startY |-> Max(0, startY),
         endX |-> Min(nWidth - 1, startX + rectWidth),
         endY |-> Min(nHeight - 1, startY + rectHeight)]

\* one pair of nested loops: every (x, y) of xs x ys is written with px when
\* index + 3 < vecImageData.size(), index = (y * nWidth + x) * 4
Paint(vecImageData, nWidth, xs, ys, px) ==
    The({ [i \in 1..Len(img) |->
              IF \E y \in rows : (i - 1) - y * nWidth \in cols THEN p ELSE img[i]] :
          img \in {vecImageData}, cols \in {xs}, rows \in {ys}, p \in {px} })

\* colour of a style string: the defaults unless '#' and at least 6 characters
StyleColor(color, dr, dg, db) ==
    LET hex == SubstrFrom(color, 1)
        parsed == color # <<>> /\ color[1] = "#" /\ Len(hex) >= 6
        rgb == ParseRGB(hex)
    IN  IF parsed THEN rgb ELSE [thrown |-> FALSE, r |-> dr, g |-> dg, b |-> db]

\* the rows startY + w (or endY - w), w < strokeWidth, that pass the loop's test
StrokeLines(from, step, strokeWidth, limit) ==
    {from + step * w : w \in {k \in 0..(strokeWidth - 1) :
                                from + step * k >= 0 /\ from + step * k < limit}}

DrawFeatures(style, vecImageData, nWidth, nHeight) ==
    The({
        LET a == ToUint8(style.m_nOpacity)
            xs == rect.startX..rect.endX
            ys == rect.startY..rect.endY
            strokeWidth == Max(1, style.m_nStrokeWidth)
            spx == <<stroke.r, stroke.g, stroke.b, a>>
            filled == Paint(vecImageData, nWidth, xs, ys, <<fill.r, fill.g, fill.b, a>>)
            top == Paint(filled, nWidth, xs,
                         StrokeLines(rect.startY, 1, strokeWidth, nHeight), spx)
            bottom == Paint(top, nWidth, xs,
                         StrokeLines(rect.endY, -1, strokeWidth, nHeight), spx)
            left == Paint(bottom, nWidth,
                         StrokeLines(rect.startX, 1, strokeWidth, nWidth), ys, spx)
            right == Paint(left, nWidth,
                         StrokeLines(rect.endX, -1, strokeWidth, nWidth), ys, spx)
        IN  IF fill.thrown THEN [ret |-> "raised", vecImageData |-> vecImageData]
            ELSE IF stroke.thrown THEN [ret |-> "raised", vecImageData |-> filled]
            ELSE [ret |-> "true", vecImageData |-> right] :
        fill \in {StyleColor(style.m_strFillColor, 255, 0, 0)},
        stroke \in {StyleColor(style.m_strStrokeColor, 0, 0, 0)},
        rect \in {PlaceholderRect(nWidth, nHeight)} })

----------------------------------------------------------------------------
(* PngEncoder::EncodeToMemory as RenderMap uses it *)

\* what libpng does in one encode: "ok", "init_failed" (png_create_write_struct
\* or png_create_info_struct returned null), "write_error" (png_error raised
\* after png_write_info wrote the signature and header); fresh is the error
\* text of the encoder RenderMap constructs afterwards to read GetError()
PngOutcomes ==
    { [encode |-> "ok", fresh |-> ""],
      [encode |-> "init_failed", fresh |-> ""],
      [encode |-> "init_failed", fresh |-> "Failed to create PNG write structure"],
      [encode |-> "write_error", fresh |-> ""] }

\* the PNG stream of a pixel buffer
PngStream(vecImageData, nWidth, nHeight) ==
    [png |-> "stream", width |-> nWidth, height |-> nHeight, pixels |-> vecImageData]

\* the write callback appends to vecOutput
EncodeToMemory(vecImageData, nWidth, nHeight, vecOutput, png) ==
    CASE png.encode = "ok" ->
            [ret |-> TRUE,
             vecOutput |-> Append(vecOutput, PngStream(vecImageData, nWidth, nHeight))]
      [] png.encode = "init_failed" -> [ret |-> FALSE, vecOutput |-> vecOutput]
      [] png.encode = "write_error" ->
            [ret |-> FALSE,
             vecOutput |-> Append(vecOutput, [png |-> "header", width |-> nWidth,
                                              height |-> nHeight, pixels |-> <<>>])]

\* "Failed to encode PNG: " + PngEncoder().GetError()
EncodeErrorText(fresh) ==
    IF fresh = "" THEN "Failed to encode PNG: "
    ELSE "Failed to encode PNG: Failed to create PNG write structure"

----------------------------------------------------------------------------
(* RenderEngine::RenderMap *)

\* the style of a layer: its entry of m_mapStyles, else a default LayerStyle
StyleOf(styles, layerName) ==
    IF layerName \in DOMAIN styles THEN styles[layerName] ELSE DefaultLayerStyle

\* the layer loop run from the last layer to the first
RECURSIVE DrawLayers_reversed(_, _, _, _, _, _)
DrawLayers_reversed(layers, i, styles, vecImageData, nWidth, nHeight) ==
    IF i > Len(layers) THEN [ret |-> "true", vecImageData |-> vecImageData]
    ELSE The({ IF drawn.ret # "true" THEN drawn
               ELSE DrawLayers_reversed(layers, i + 1, styles, drawn.vecImageData,
                                        nWidth, nHeight) :
               drawn \in {DrawFeatures(StyleOf(styles, layers[Len(layers) + 1 - i]),
                                       vecImageData, nWidth, nHeight)} })

\* the layer loop, from layer i on
RECURSIVE DrawLayers(_, _, _, _, _, _)
DrawLayers(layers, i, styles, vecImageData, nWidth, nHeight) ==
    IF i > Len(layers) THEN [ret |-> "true", vecImageData |-> vecImageData]
    ELSE The({ IF drawn.ret # "true" THEN drawn
               ELSE DrawLayers(layers, i + 1, styles, drawn.vecImageData,
                               nWidth, nHeight) :
               drawn \in {DrawFeatures(StyleOf(styles, layers[i]), vecImageData,
                                       nWidth, nHeight)} })

\* stroke width left at the LayerStyle default
PlaceholderStyle_thin == LayerStyle(ColorCCCCCC, Color000000, 1, 255)

\* the style RenderMap builds when no layer is named
PlaceholderStyle == LayerStyle(ColorCCCCCC, Color000000, 2, 255)

\* ret is "true", "false", or "raised" when an exception leaves the call;
\* allocated tells whether the canvas was created, draws how many DrawFeatures
\* calls were made, encodes how many PNG encodes
RenderMap(request, vecPngData, initialized, config, png) ==
    LET fail(ret, msg) ==
            [ret |-> ret, strError |-> msg, allocated |-> FALSE,
             vecImageData |-> <<>>, vecPngData |-> vecPngData, encodes |-> 0]
        w == request.m_nWidth
        h == request.m_nHeight
        \* the canvas drawn, then encoded
        Encode(drawn) ==
            IF drawn.ret # "true"
            THEN [ret |-> drawn.ret, strError |-> NoSetError, allocated |-> TRUE,
                  vecImageData |-> drawn.vecImageData, vecPngData |-> vecPngData,
                  encodes |-> 0]
            ELSE The({ [ret |-> IF enc.ret THEN "true" ELSE "false",
                        strError |-> IF enc.ret THEN NoSetError
                                     ELSE EncodeErrorText(png.fresh),
                        allocated |-> TRUE, vecImageData |-> drawn.vecImageData,
                        vecPngData |-> enc.vecOutput, encodes |-> 1] :
                       enc \in {EncodeToMemory(drawn.vecImageData, w, h,
                                               vecPngData, png)} })
        \* the blank canvas, then the layers
        Draw(blank) ==
            IF blank.ret # "true" THEN fail(blank.ret, blank.strError)
            ELSE The({ Encode(drawn) :
                       drawn \in {IF request.m_vecLayers = <<>>
                                  THEN DrawFeatures(PlaceholderStyle,
                                                    blank.vecImageData, w, h)
                                  ELSE DrawLayers(request.m_vecLayers, 1,
                                                  request.m_mapStyles,
                                                  blank.vecImageData, w, h)} })
    IN  IF ~initialized THEN fail("false", "RenderEngine not initialized")
        ELSE IF ~IsValid(request.m_bbox) THEN fail("false", "Invalid bounding box")
        ELSE IF w <= 0 \/ h <= 0 \/ w > config.m_nMaxImageWidth
                \/ h > config.m_nMaxImageHeight
        THEN fail("false", "Invalid image dimensions")
        ELSE The({ Draw(blank) :
                   blank \in {CreateBlankImage(w, h, request.m_strBackgroundColor)} })

\* m_strError after a call that reports strError
AfterSetError(old, strError) == IF strError = NoSetError THEN old ELSE strError

----------------------------------------------------------------------------
(* RenderEngine::WorldToPixel *)

IntMax == (2^30 - 1) * 2 + 1
IntMin == -IntMax - 1

\* a double: a whole number, or NaN
Finite(v) == [nan |-> FALSE, v |-> v]
NaN == [nan |-> TRUE, v |-> 0]

Abs(n) == IF n < 0 THEN -n ELSE n

\* a / b is a double without rounding: b divides a, or the quotient is a
\* multiple of a power of 1/2 (b at most 2^9 in lowest terms)
ExactQuotient(a, b) == \E e \in 0..9 : (Abs(a) * 2^e) % b = 0

\* the magnitudes static_cast<int> may see for the double a / b * n: the exact
\* quotient truncated, and, when a / b is rounded and a * n / b is whole, also
\* the integer below it (1.0 / 49 * 49 is 0.99999999999999989)
Magnitudes(q, r, b, n) ==
    IF r # 0 /\ (r * n) % b = 0 /\ ~ExactQuotient(r, b)
    THEN {q * n + (r * n) \div b - 1, q * n + (r * n) \div b}
    ELSE {q * n + (r * n) \div b}

\* the double product converted to the nearest integer instead
ScaleToInt_rounded(a, b, n) ==
    LET q == Abs(a) \div b
        r == Abs(a) % b
    IN  IF q > IntMax \div n - 1 THEN [fits |-> FALSE, values |-> {}]
        ELSE [fits |-> TRUE,
              values |-> {(IF a < 0 THEN -1 ELSE 1) * (q * n + (2 * r * n + b) \div (2 * b))}]

\* static_cast<int>(a / b * n) for whole a, b > 0, n > 0: the product
\* truncated toward zero, or "out of range" when it does not fit an int
ScaleToInt(a, b, n) ==
    LET q == Abs(a) \div b
        r == Abs(a) % b
    IN  IF q > IntMax \div n - 1 THEN [fits |-> FALSE, values |-> {}]
        ELSE [fits |-> TRUE,
              values |-> {(IF a < 0 THEN -1 ELSE 1) * m : m \in Magnitudes(q, r, b, n)}]

\* the values a double -> int conversion may yield: the truncated value, or,
\* the behaviour being undefined for NaN and out-of-range values, any int
\* (x86 yields INT_MIN, saturating targets INT_MAX or 0)
ConvertedInts(nan, scaled, n) ==
    IF nan \/ ~scaled.fits THEN {IntMin, -1, 0, n - 1, n, IntMax}
    ELSE scaled.values

\* the clamp to [0, nWidth - 1] dropped on the upper side
WorldToPixel_noUpperClamp(dWorldX, dWorldY, bbox, nWidth, nHeight) ==
    IF ~IsValid(bbox) \/ nWidth <= 0 \/ nHeight <= 0
    THEN {[ret |-> FALSE, nPixelX |-> 0, nPixelY |-> 0]}
    ELSE LET xs == ConvertedInts(dWorldX.nan,
                       ScaleToInt(dWorldX.v - bbox.m_dMinX, Width(bbox), nWidth), nWidth)
             ys == ConvertedInts(dWorldY.nan,
                       ScaleToInt(Height(bbox) - (dWorldY.v - bbox.m_dMinY),
                                  Height(bbox), nHeight), nHeight)
         IN  {[ret |-> TRUE, nPixelX |-> Max(0, x), nPixelY |-> Max(0, y)] :
                 x \in xs, y \in ys}

\* the Y axis not flipped: yPercent * height instead of (1 - yPercent) * height
WorldToPixel_noYFlip(dWorldX, dWorldY, bbox, nWidth, nHeight) ==
    IF ~IsValid(bbox) \/ nWidth <= 0 \/ nHeight <= 0
    THEN {[ret |-> FALSE, nPixelX |-> 0, nPixelY |-> 0]}
    ELSE LET xs == ConvertedInts(dWorldX.nan,
                       ScaleToInt(dWorldX.v - bbox.m_dMinX, Width(bbox), nWidth), nWidth)
             ys == ConvertedInts(dWorldY.nan,
                       ScaleToInt(dWorldY.v - bbox.m_dMinY, Height(bbox), nHeight),
                       nHeight)
         IN  {[ret |-> TRUE,
               nPixelX |-> Max(0, Min(nWidth - 1, x)),
               nPixelY |-> Max(0, Min(nHeight - 1, y))] : x \in xs, y \in ys}

\* the outcomes of one call: ret, and the out-parameters nPixelX, nPixelY
\* (0 stands for "not written" when ret is FALSE)
WorldToPixel(dWorldX, dWorldY, bbox, nWidth, nHeight) ==
    IF ~IsValid(bbox) \/ nWidth <= 0 \/ nHeight <= 0
    THEN {[ret |-> FALSE, nPixelX |-> 0, nPixelY |-> 0]}
    ELSE LET xs == ConvertedInts(dWorldX.nan,
                       ScaleToInt(dWorldX.v - bbox.m_dMinX, Width(bbox), nWidth), nWidth)
             ys == ConvertedInts(dWorldY.nan,
                       ScaleToInt(Height(bbox) - (dWorldY.v - bbox.m_dMinY),
                                  Height(bbox), nHeight), nHeight)
         IN  {[ret |-> TRUE,
               nPixelX |-> Max(0, Min(nWidth - 1, x)),
               nPixelY |-> Max(0, Min(nHeight - 1, y))] : x \in xs, y \in ys}

----------------------------------------------------------------------------
(* Inputs *)

\* ServerConfig: the default limits, and a small configured limit
Configs ==
    { [m_nMaxImageWidth |-> DefaultMaxImageWidth,
       m_nMaxImageHeight |-> DefaultMaxImageHeight],
      [m_nMaxImageWidth |-> SmallMax, m_nMaxImageHeight |-> SmallMax] }

ColorWhite == <<"#", "f", "f", "f", "f", "f", "f">>
ColorRed3 == <<"#", "f", "0", "0">>
ColorFiveDigits == <<"#", "1", "2", "3", "4", "5">>
ColorSixDigits == <<"#", "1", "2", "3", "4", "5", "6">>
ColorNoHash == <<"f", "f", "f", "f", "f", "f", "0">>
ColorNotHex6 == <<"#", "g", "g", "g", "g", "g", "g">>
ColorNotHex3 == <<"#", "f", "g", "0">>
ColorUpper == <<"#", "A", "b", "C", "d", "E", "f">>
ColorBadLengthAndDigit == <<"#", "1", "2", "g", "4", "5">>

NameOk == <<"a", "Z", "9", "_", "-">>
NameRoads == <<"r", "d">>
NameSpace == <<"a", " ", "b">>
NameEmpty == <<>>

BoxScenario == BoundingBox(-10, -10, 10, 10)
BoxWorld == BoundingBox(-180, -90, 180, 90)
BoxInverted == BoundingBox(10, -10, -10, 10)
BoxDegenerate == BoundingBox(0, 0, 0, 0)
BoxLonOut == BoundingBox(-181, -90, 0, 90)
BoxLatOut == BoundingBox(-10, -91, 10, 10)
BoxBothOut == BoundingBox(0, 0, 181, 91)
BoxInvertedOut == BoundingBox(200, 100, 190, 95)

\* all lists of at most n elements of S
RECURSIVE ListsUpTo(_, _)
ListsUpTo(S, n) ==
    IF n = 0 THEN {<<>>}
    ELSE LET shorter == ListsUpTo(S, n - 1)
         IN  shorter \cup {Append(l, e) : l \in shorter, e \in S}

MapRequest(bbox, w, h, layers, styles, bg) ==
    [m_bbox |-> bbox, m_nWidth |-> w, m_nHeight |-> h, m_vecLayers |-> layers,
     m_mapStyles |-> styles, m_strBackgroundColor |-> bg]

NoStyles == <<>>

ValidateBoxes ==
    {BoxScenario, BoxWorld, BoxInverted, BoxDegenerate, BoxLonOut, BoxLatOut,
     BoxBothOut, BoxInvertedOut}
ValidateSizes ==
    {0, 1, SmallMax, SmallMax + 1, DefaultMaxImageWidth, DefaultMaxImageWidth + 1}
ValidateColors ==
    {<<>>, ColorWhite, ColorRed3, ColorFiveDigits, ColorSixDigits, ColorNoHash,
     ColorNotHex6, ColorNotHex3, ColorUpper, ColorBadLengthAndDigit}
ValidateLayerLists == ListsUpTo({NameOk, NameSpace, NameEmpty}, MaxLayers)

----------------------------------------------------------------------------
(* Validation alone: SpecValidate *)

\* the caller drops the call's locals; the engine keeps its state
ReturnToCaller ==
    /\ op # "idle"
    /\ op' = "idle"
    /\ args' = <<>>
    /\ out' = <<>>
    /\ UNCHANGED <<threads, encoders, heap, m_pDbManager, queries, server, requests, m_config, hasNlohmannJson, m_bInitialized, m_strError>>

InitValidate ==
    /\ m_config \in Configs
    /\ hasNlohmannJson = TRUE
    /\ m_bInitialized = TRUE
    /\ m_strError = ""
    /\ op = "idle"
    /\ args = <<>>
    /\ out = <<>>
    /\ NoPngCalls
    /\ NoServerCalls

\* a caller passes one request to ValidateMapRequestParameters
ValidateCall ==
    /\ op = "idle"
    /\ \E bbox \in ValidateBoxes, w \in ValidateSizes, h \in ValidateSizes,
          bg \in ValidateColors, layers \in ValidateLayerLists :
          LET request == MapRequest(bbox, w, h, layers, NoStyles, bg)
          IN  /\ args' = request
              /\ out' = ValidateMapRequestParameters(request, m_config)
    /\ op' = "ValidateMapRequestParameters"
    /\ UNCHANGED <<threads, encoders, heap, m_pDbManager, queries, server, requests, m_config, hasNlohmannJson, m_bInitialized, m_strError>>

NextValidate == ValidateCall \/ ReturnToCaller

SpecValidate == InitValidate /\ [][NextValidate]_vars

----------------------------------------------------------------------------
(* Request validation: acceptance and error precedence *)

\* the acceptance conditions of request validation, rule by rule
BoxOrdered(request) ==
    request.m_bbox.m_dMinX < request.m_bbox.m_dMaxX
    /\ request.m_bbox.m_dMinY < request.m_bbox.m_dMaxY
LongitudeInRange(request) ==
    request.m_bbox.m_dMinX >= -180 /\ request.m_bbox.m_dMaxX <= 180
LatitudeInRange(request) ==
    request.m_bbox.m_dMinY >= -90 /\ request.m_bbox.m_dMaxY <= 90
DimensionsPositive(request) == request.m_nWidth > 0 /\ request.m_nHeight > 0
WidthWithinMax(request, config) == request.m_nWidth <= config.m_nMaxImageWidth
HeightWithinMax(request, config) == request.m_nHeight <= config.m_nMaxImageHeight
ColorFormatOk(color) ==
    color = <<>> \/ (Head(color) = "#" /\ Len(Tail(color)) \in {3, 6})
ColorDigitsOk(color) ==
    color = <<>> \/ \A k \in 1..Len(Tail(color)) : IsHexChar(Tail(color)[k])
LayerNameOk(name) ==
    name # <<>> /\ \A k \in 1..Len(name) : IsLayerNameChar(name[k])

RequestAcceptable(request, config) ==
    /\ BoxOrdered(request)
    /\ LongitudeInRange(request)
    /\ LatitudeInRange(request)
    /\ DimensionsPositive(request)
    /\ WidthWithinMax(request, config)
    /\ HeightWithinMax(request, config)
    /\ ColorFormatOk(request.m_strBackgroundColor)
    /\ ColorDigitsOk(request.m_strBackgroundColor)
    /\ \A i \in 1..Len(request.m_vecLayers) : LayerNameOk(request.m_vecLayers[i])

\* C1: ValidateMapRequestParameters returns true exactly for the requests that
\* meet every rule: ordered bbox inside [-180,180]x[-90,90], 0 < width <= max
\* width, 0 < height <= max height, background empty or '#' plus 3 or 6 hex
\* digits, every layer name non-empty over [A-Za-z0-9_-].
C1_AcceptsIffAllRulesHold ==
    op = "ValidateMapRequestParameters"
        => (out.ret <=> RequestAcceptable(args, m_config))

\* 4096 wide and high is accepted under the default limits, with a three-digit
\* background and a layer name using every allowed character class
C1_Witness ==
    /\ op = "ValidateMapRequestParameters"
    /\ m_config.m_nMaxImageWidth = DefaultMaxImageWidth
    /\ args.m_nWidth = DefaultMaxImageWidth
    /\ args.m_nHeight = DefaultMaxImageHeight
    /\ args.m_strBackgroundColor = ColorRed3
    /\ args.m_vecLayers = <<NameOk>>
    /\ out.ret = TRUE

\* the rules in their fixed order; rule 9 stands for the layer names
RuleViolated(k, request, config) ==
    CASE k = 1 -> ~BoxOrdered(request)
      [] k = 2 -> ~LongitudeInRange(request)
      [] k = 3 -> ~LatitudeInRange(request)
      [] k = 4 -> ~DimensionsPositive(request)
      [] k = 5 -> ~WidthWithinMax(request, config)
      [] k = 6 -> ~HeightWithinMax(request, config)
      [] k = 7 -> ~ColorFormatOk(request.m_strBackgroundColor)
      [] k = 8 -> ~ColorDigitsOk(request.m_strBackgroundColor)
      [] k = 9 -> \E i \in 1..Len(request.m_vecLayers) :
                      ~LayerNameOk(request.m_vecLayers[i])

ViolatedRules(request, config) == {k \in 1..9 : RuleViolated(k, request, config)}

FirstViolatedRule(request, config) ==
    CHOOSE k \in ViolatedRules(request, config) :
        \A j \in ViolatedRules(request, config) : k <= j

FirstBadLayer(request) ==
    LET bad == {i \in 1..Len(request.m_vecLayers) :
                    ~LayerNameOk(request.m_vecLayers[i])}
    IN  request.m_vecLayers[CHOOSE i \in bad : \A j \in bad : i <= j]

\* the rule a reported message belongs to
RuleOfMessage(msg) ==
    CASE msg[1] = "Invalid bounding box. minX must be less than maxX and minY less than maxY" -> 1
      [] msg[1] = "Longitude values must be between -180 and 180 degrees" -> 2
      [] msg[1] = "Latitude values must be between -90 and 90 degrees" -> 3
      [] msg[1] = "Image width and height must be positive" -> 4
      [] msg[1] = "Image width exceeds maximum allowed value of " -> 5
      [] msg[1] = "Image height exceeds maximum allowed value of " -> 6
      [] msg[1] = "Background color must be in format #RRGGBB or #RGB" -> 7
      [] msg[1] = "Background color contains invalid hexadecimal characters" -> 8
      [] msg[1] = "Layer names cannot be empty" -> 9
      [] msg[1] = "Layer name '" -> 9

\* C2: a rejected request gets the one message of the first rule it violates in
\* the order bbox order, longitude, latitude, positive size, width maximum,
\* height maximum, colour format, colour digits, layer names in list order.
C2_FirstViolatedRuleReported ==
    (op = "ValidateMapRequestParameters" /\ ~out.ret)
        => /\ ViolatedRules(args, m_config) # {}
           /\ RuleOfMessage(out.strError) = FirstViolatedRule(args, m_config)
           /\ RuleOfMessage(out.strError) = 9
                 => IF FirstBadLayer(args) = <<>>
                    THEN out.strError[1] = "Layer names cannot be empty"
                    ELSE /\ out.strError[1] = "Layer name '"
                         /\ out.strError[2] = FirstBadLayer(args)

\* a request breaking the longitude, latitude, size, colour and layer rules at
\* once is answered with the longitude message
C2_Witness ==
    /\ op = "ValidateMapRequestParameters"
    /\ args.m_bbox = BoxBothOut
    /\ args.m_nWidth = 0
    /\ args.m_strBackgroundColor = ColorBadLengthAndDigit
    /\ args.m_vecLayers = <<NameSpace, NameEmpty>>
    /\ out.ret = FALSE
    /\ out.strError = <<"Longitude values must be between -180 and 180 degrees">>

----------------------------------------------------------------------------
(* The render engine: Spec *)

ColorAlpha8 == <<"#", "0", "0", "f", "f", "0", "0", "8", "0">>
ColorHalfHex == <<"#", "1", "g", "2", "g", "3", "g">>
ColorFF0000 == <<"#", "f", "f", "0", "0", "0", "0">>
Color0000FF == <<"#", "0", "0", "0", "0", "f", "f">>
Color00FF00 == <<"#", "0", "0", "f", "f", "0", "0">>
ColorZZZZZZ == <<"#", "z", "z", "z", "z", "z", "z">>

StyleRed == LayerStyle(ColorFF0000, Color0000FF, 2, 128)
StyleGreen == LayerStyle(Color00FF00, ColorWhite, 1, 300)
StyleShortFill == LayerStyle(ColorRed3, Color000000, 0, 255)
StyleBadStroke == LayerStyle(ColorCCCCCC, ColorZZZZZZ, 1, 255)

StyleMaps ==
    { NoStyles,
      (NameOk :> StyleRed) @@ (NameRoads :> StyleGreen),
      (NameOk :> StyleShortFill) @@ (NameSpace :> StyleBadStroke) }

\* an output vector as the caller hands it in: empty, or holding earlier bytes
StalePng == <<[png |-> "stale", width |-> 0, height |-> 0, pixels |-> <<>>]>>

RenderColors ==
    {<<>>, ColorWhite, ColorRed3, ColorFiveDigits, ColorNoHash, ColorNotHex6,
     ColorAlpha8, ColorHalfHex, ColorUpper}
RenderLayerLists == ListsUpTo({NameOk, NameRoads, NameSpace}, MaxLayers)

\* requests that differ in what the entry checks of RenderMap read
EntryRequests ==
    { MapRequest(bbox, w, h, <<>>, NoStyles, ColorWhite) :
        bbox \in {BoxScenario, BoxInverted, BoxDegenerate},
        w \in {-1, 0, 1, SmallMax, SmallMax + 1, DefaultMaxImageWidth + 1},
        h \in {0, 1, SmallMax + 1} }
\* requests that differ in what only full validation would reject
UnvalidatedRequests ==
    { MapRequest(bbox, w, 1, layers, NoStyles, bg) :
        bbox \in {BoxScenario, BoxBothOut}, w \in {1, MaxDim},
        layers \in {<<>>, <<NameSpace>>}, bg \in RenderColors }
\* requests that differ in canvas size, layers and styles
LayerRequests ==
    { MapRequest(BoxScenario, w, h, layers, styles, ColorWhite) :
        w \in {1, 2, MaxDim}, h \in {1, MaxDim}, layers \in RenderLayerLists,
        styles \in StyleMaps }
\* bbox=(-10,-10,10,10), width=100, height=100, background "#ffffff", no layer
ScenarioRequest == MapRequest(BoxScenario, 100, 100, <<>>, NoStyles, ColorWhite)

PngOk == [encode |-> "ok", fresh |-> ""]

\* the calls of RenderMap: request, output vector handed in, libpng's outcome
RenderCalls ==
    { <<request, vecPngData, png>> :
        request \in EntryRequests \cup UnvalidatedRequests,
        vecPngData \in {<<>>, StalePng}, png \in PngOutcomes }
    \cup { <<request, vecPngData, PngOk>> :
        request \in LayerRequests, vecPngData \in {<<>>, StalePng} }
    \cup { <<ScenarioRequest, <<>>, PngOk>> }

Init ==
    /\ m_config \in Configs
    /\ hasNlohmannJson = TRUE
    /\ m_bInitialized = TRUE
    /\ m_strError = ""
    /\ op = "idle"
    /\ args = <<>>
    /\ out = <<>>
    /\ NoPngCalls
    /\ NoServerCalls

\* the engine is the source of a move construction or assignment
MovedFrom ==
    /\ op = "idle"
    /\ m_bInitialized
    /\ m_bInitialized' = FALSE
    /\ m_strError' = ""
    /\ UNCHANGED <<threads, encoders, heap, m_pDbManager, queries, server, requests, m_config, hasNlohmannJson, op, args, out>>

\* a caller renders one request into its output vector
RenderMapCall ==
    /\ op = "idle"
    /\ \E call \in RenderCalls :
          /\ args' = [request |-> call[1], vecPngData |-> call[2], png |-> call[3]]
          /\ out' = RenderMap(call[1], call[2], m_bInitialized, m_config, call[3])
          /\ m_strError' = AfterSetError(m_strError, out'.strError)
    /\ op' = "RenderMap"
    /\ UNCHANGED <<threads, encoders, heap, m_pDbManager, queries, server, requests, m_config, hasNlohmannJson, m_bInitialized>>

Next == MovedFrom \/ RenderMapCall \/ ReturnToCaller

Spec == Init /\ [][Next]_vars

----------------------------------------------------------------------------
(* RenderMap: entry checks, compositing order, the reference scenario *)

EntryChecksPass(request, config) ==
    /\ BoxOrdered(request)
    /\ DimensionsPositive(request)
    /\ WidthWithinMax(request, config)
    /\ HeightWithinMax(request, config)

\* C4 as claimed: RenderMap rejects, before creating the canvas, every request
\* that request validation would reject.
C4_Claimed_RenderMapValidatesFully ==
    (op = "RenderMap" /\ m_bInitialized
        /\ ~RequestAcceptable(args.request, m_config))
        => (out.ret # "true" /\ ~out.allocated)

\* C4 amended: RenderMap returns false before creating the canvas exactly when
\* the engine is not initialized, the bbox is not ordered, or a dimension is
\* outside (0, maximum]; range, colour and layer-name rules are not applied.
C4_RenderMapEntryChecksOnly ==
    op = "RenderMap"
        => ((out.ret = "false" /\ ~out.allocated)
                <=> (~m_bInitialized \/ ~EntryChecksPass(args.request, m_config)))

\* a bbox outside the world range, a five-digit colour and a layer name with a
\* space are rendered to a PNG by a direct call
C4_Witness ==
    /\ op = "RenderMap"
    /\ args.request.m_bbox = BoxBothOut
    /\ args.request.m_strBackgroundColor = ColorFiveDigits
    /\ args.request.m_vecLayers = <<NameSpace>>
    /\ out.ret = "true"
    /\ out.allocated
    /\ out.encodes = 1

\* C5: RenderMap fails with 'RenderEngine not initialized', else 'Invalid
\* bounding box', else 'Invalid image dimensions', in that precedence, and
\* then leaves vecPngData as handed in and allocates no pixel buffer.
C5_EntryFailurePrecedence ==
    op = "RenderMap"
        => LET expected ==
                   IF ~m_bInitialized THEN "RenderEngine not initialized"
                   ELSE IF ~BoxOrdered(args.request) THEN "Invalid bounding box"
                   ELSE IF ~(DimensionsPositive(args.request)
                             /\ WidthWithinMax(args.request, m_config)
                             /\ HeightWithinMax(args.request, m_config))
                   THEN "Invalid image dimensions"
                   ELSE "none"
           IN  expected # "none"
                   => /\ out.ret = "false"
                      /\ out.strError = expected
                      /\ m_strError = expected
                      /\ out.vecPngData = args.vecPngData
                      /\ ~out.allocated
                      /\ out.vecImageData = <<>>
                      /\ out.encodes = 0

\* a moved-from engine, handed a degenerate bbox and a zero width with a
\* non-empty output vector, reports only that it is not initialized
C5_Witness ==
    /\ op = "RenderMap"
    /\ ~m_bInitialized
    /\ args.request.m_bbox = BoxDegenerate
    /\ args.request.m_nWidth = 0
    /\ args.vecPngData = StalePng
    /\ out.strError = "RenderEngine not initialized"
    /\ out.vecPngData = StalePng

\* pixel (x, y) of a canvas nWidth wide
PixelAt(vecImageData, nWidth, x, y) == vecImageData[y * nWidth + x + 1]

\* the pixel columns and rows of the centred placeholder
CentredColumns(nWidth) ==
    LET first == nWidth \div 2 - (nWidth \div 4) \div 2
    IN  {x \in 0..(nWidth - 1) : first <= x /\ x <= first + nWidth \div 4}
CentredRows(nHeight) == CentredColumns(nHeight)

\* C6: after a RenderMap with layers, every pixel of the placeholder rectangle
\* is what the LAST listed layer's style (its entry of the style map, else the
\* default style) paints there: its fill or stroke colour with its alpha.
C6_LastLayerOnTop ==
    (op = "RenderMap" /\ out.ret = "true" /\ args.request.m_vecLayers # <<>>)
        => LET request == args.request
               w == request.m_nWidth
               h == request.m_nHeight
               name == request.m_vecLayers[Len(request.m_vecLayers)]
               style == IF name \in DOMAIN request.m_mapStyles
                        THEN request.m_mapStyles[name]
                        ELSE LayerStyle(ColorCCCCCC, Color000000, 1, 255)
               alone == DrawFeatures(style, [i \in 1..(w * h) |-> <<7, 7, 7, 7>>],
                                     w, h).vecImageData
           IN  \A x \in CentredColumns(w), y \in CentredRows(h) :
                   /\ PixelAt(out.vecImageData, w, x, y) = PixelAt(alone, w, x, y)
                   /\ PixelAt(out.vecImageData, w, x, y) # <<7, 7, 7, 7>>

\* two styled layers on an 8x8 canvas: the rectangle shows the second layer's
\* green fill inside its white stroke at alpha 300 % 256, and nothing of the
\* first layer's red and blue
C6_Witness ==
    /\ op = "RenderMap"
    /\ out.ret = "true"
    /\ args.request.m_vecLayers = <<NameOk, NameRoads>>
    /\ NameOk \in DOMAIN args.request.m_mapStyles
    /\ args.request.m_mapStyles[NameOk] = StyleRed
    /\ args.request.m_mapStyles[NameRoads] = StyleGreen
    /\ args.request.m_nWidth = 8
    /\ args.request.m_nHeight = 8
    /\ PixelAt(out.vecImageData, 8, 4, 4) = <<0, 255, 0, 44>>
    /\ PixelAt(out.vecImageData, 8, 3, 3) = <<255, 255, 255, 44>>
    /\ PixelAt(out.vecImageData, 8, 0, 0) = <<255, 255, 255, 255>>

\* expansion of a hexadecimal digit to a channel value (f -> ff)
ExpandDigit(c) == 17 * HexValue(c)

\* C8 as claimed: a '#RGB' background that passes validation fills the canvas
\* with that colour, each digit expanded to a channel (seen at pixel (0,0),
\* which no placeholder covers on a canvas at least 8 wide).
C8_Claimed_ThreeDigitColourRendered ==
    (op = "RenderMap" /\ out.ret = "true"
        /\ RequestAcceptable(args.request, m_config)
        /\ Len(args.request.m_strBackgroundColor) = 4
        /\ args.request.m_nWidth >= 8)
        => LET bg == args.request.m_strBackgroundColor
           IN  PixelAt(out.vecImageData, args.request.m_nWidth, 0, 0)
                   = <<ExpandDigit(bg[2]), ExpandDigit(bg[3]), ExpandDigit(bg[4]), 255>>

\* C9: bbox (-10,-10,10,10), 100x100, '#ffffff', no layers: RenderMap succeeds,
\* the encoder receives a 100x100 buffer whose corners are opaque white and
\* whose centre carries the #cccccc fill inside a 2-pixel #000000 border.
C9_ReferenceScenario ==
    (op = "RenderMap" /\ args.request = ScenarioRequest /\ m_bInitialized
        /\ m_config.m_nMaxImageWidth = DefaultMaxImageWidth)
        => /\ out.ret = "true"
           /\ Len(out.vecPngData) = 1
           /\ out.vecPngData[1].width = 100
           /\ out.vecPngData[1].height = 100
           /\ out.vecPngData[1].pixels = out.vecImageData
           /\ Len(out.vecImageData) = 100 * 100
           /\ \A x \in {0, 99}, y \in {0, 99} :
                  PixelAt(out.vecImageData, 100, x, y) = <<255, 255, 255, 255>>
           /\ PixelAt(out.vecImageData, 100, 50, 50) = <<204, 204, 204, 255>>
           /\ \A x \in 38..63, y \in 38..63 :
                  PixelAt(out.vecImageData, 100, x, y) =
                      IF x \in {38, 39, 62, 63} \/ y \in {38, 39, 62, 63}
                      THEN <<0, 0, 0, 255>> ELSE <<204, 204, 204, 255>>
           /\ \A x \in {37, 64}, y \in 37..64 :
                  PixelAt(out.vecImageData, 100, x, y) = <<255, 255, 255, 255>>
           /\ \A x \in 37..64, y \in {37, 64} :
                  PixelAt(out.vecImageData, 100, x, y) = <<255, 255, 255, 255>>

C9_Witness ==
    /\ op = "RenderMap"
    /\ args.request = ScenarioRequest
    /\ m_config.m_nMaxImageWidth = DefaultMaxImageWidth
    /\ out.ret = "true"
    /\ PixelAt(out.vecImageData, 100, 39, 50) = <<0, 0, 0, 255>>
    /\ PixelAt(out.vecImageData, 100, 40, 50) = <<204, 204, 204, 255>>

\* C19: a layer style's opacity is clamped to [0,255] before it is written as
\* the alpha channel (above 255 gives 255, negative gives 0), seen on every
\* pixel of the placeholder, which the last layer's style paints.
C19_Claimed_OpacityClamped ==
    (op = "RenderMap" /\ out.ret = "true" /\ args.request.m_vecLayers # <<>>)
        => LET request == args.request
               w == request.m_nWidth
               h == request.m_nHeight
               style == StyleOf(request.m_mapStyles,
                                request.m_vecLayers[Len(request.m_vecLayers)])
           IN  \A x \in CentredColumns(w), y \in CentredRows(h) :
                   PixelAt(out.vecImageData, w, x, y)[4]
                       = Min(255, Max(0, style.m_nOpacity))

\* C20: the placeholder covers a centred axis-aligned rectangle exactly
\* width/4 columns wide and height/4 rows high (integer division), seen as the
\* pixels that differ from the white background after a RenderMap without
\* layers.
C20_Claimed_QuarterSizedRectangle ==
    (op = "RenderMap" /\ out.ret = "true" /\ args.request.m_vecLayers = <<>>
        /\ args.request.m_strBackgroundColor = ColorWhite)
        => LET w == args.request.m_nWidth
               h == args.request.m_nHeight
               painted == {c \in (0..(w - 1)) \X (0..(h - 1)) :
                             PixelAt(out.vecImageData, w, c[1], c[2])
                                 # <<255, 255, 255, 255>>}
               columns == {c[1] : c \in painted}
               rows == {c[2] : c \in painted}
           IN  /\ painted = columns \X rows
               /\ Cardinality(columns) = w \div 4
               /\ Cardinality(rows) = h \div 4

----------------------------------------------------------------------------
(* HttpServer::ParseMapRequest and HttpServer::HandleGenerateRequest *)

\* largest canvas, in pixels, that a modelled /generate request may render
MaxCanvasPixels == 64

\* A request body is "empty", "malformed" (no JSON document), or a compact JSON
\* object: its bbox given as a 4-array ("array"), as minx/miny/maxx/maxy numbers
\* ("fields") or not at all ("absent"); width, height and layers present or not.
Present(v) == [present |-> TRUE, value |-> v]
Absent == [present |-> FALSE, value |-> 0]
AbsentList == [present |-> FALSE, value |-> <<>>]

JsonBody(bboxKind, box, width, height, layers) ==
    [kind |-> "object", bboxKind |-> bboxKind, box |-> box, width |-> width,
     height |-> height, layers |-> layers]
BodyEmpty ==
    [kind |-> "empty", bboxKind |-> "absent", box |-> BoxDegenerate,
     width |-> Absent, height |-> Absent, layers |-> AbsentList]
BodyMalformed ==
    [kind |-> "malformed", bboxKind |-> "absent", box |-> BoxDegenerate,
     width |-> Absent, height |-> Absent, layers |-> AbsentList]

\* a default-constructed MapRequest
DefaultMapRequest == MapRequest(BoxDegenerate, 1024, 768, <<>>, NoStyles, ColorWhite)

\* the branch compiled with HAS_NLOHMANN_JSON
ParseMapRequestJson(body, config) ==
    LET r0 == DefaultMapRequest
        r1 == [r0 EXCEPT !.m_bbox = body.box]
        r2 == [r1 EXCEPT !.m_nWidth = IF body.width.present THEN body.width.value ELSE 1024,
                         !.m_nHeight = IF body.height.present THEN body.height.value ELSE 768]
        r3 == [r2 EXCEPT !.m_vecLayers = IF body.layers.present THEN body.layers.value ELSE <<>>]
    IN  IF body.kind = "malformed"
        THEN [ret |-> FALSE, request |-> r0, httpError |-> "JSON parsing error: "]
        ELSE IF body.bboxKind = "absent"
        THEN [ret |-> FALSE, request |-> r0, httpError |-> ""]
        ELSE IF ~IsValid(r1.m_bbox)
        THEN [ret |-> FALSE, request |-> r1, httpError |-> ""]
        ELSE IF r2.m_nWidth <= 0 \/ r2.m_nHeight <= 0
                \/ r2.m_nWidth > config.m_nMaxImageWidth
                \/ r2.m_nHeight > config.m_nMaxImageHeight
        THEN [ret |-> FALSE, request |-> r2, httpError |-> ""]
        ELSE [ret |-> TRUE, request |-> r3, httpError |-> ""]

\* the branch compiled without it: GetJsonString cuts a value at the first
\* ',', '"' or '}', so numbers are read, a 4-array bbox is not, and a layers
\* array yields the single name "[" ("[]" when the array is empty)
ParseMapRequestPlain(body, config) ==
    LET r0 == DefaultMapRequest
        r1 == [r0 EXCEPT !.m_bbox = IF body.bboxKind = "fields" THEN body.box
                                     ELSE BoxDegenerate]
        r2 == [r1 EXCEPT !.m_nWidth = IF body.width.present THEN body.width.value ELSE 0,
                         !.m_nHeight = IF body.height.present THEN body.height.value ELSE 0]
        r3 == [r2 EXCEPT !.m_vecLayers =
                   IF ~body.layers.present THEN <<>>
                   ELSE IF body.layers.value = <<>> THEN << <<"[", "]">> >>
                   ELSE << <<"[">> >>]
    IN  [ret |-> TRUE, request |-> r3, httpError |-> ""]

ParseMapRequest(body, config, hasJson) ==
    IF body.kind = "empty"
    THEN [ret |-> TRUE, httpError |-> "",
          request |-> [DefaultMapRequest EXCEPT !.m_bbox = BoxWorld]]
    ELSE IF hasJson THEN ParseMapRequestJson(body, config)
    ELSE ParseMapRequestPlain(body, config)

\* GenerateErrorResponse(code, message) with content type application/json
ErrorResponse(code, message) ==
    [strContentType |-> "application/json", code |-> code, message |-> message,
     data |-> <<>>]

\* the render call is made before the request is validated
HandleGenerateRequest_renderFirst(body, config, hasJson, initialized, png, fileOpens) ==
    LET none == [strError |-> NoSetError, allocated |-> FALSE, encodes |-> 0,
                 renderCalls |-> 0, filesWritten |-> 0]
        base(render) ==
            [strError |-> render.strError, allocated |-> render.allocated,
             encodes |-> render.encodes, renderCalls |-> 1, filesWritten |-> 0]
        Rendered(render) ==
            IF render.ret # "true"
            THEN base(render)
                 @@ [parsed |-> TRUE, validated |-> TRUE,
                     response |-> ErrorResponse("RENDER_FAILED", <<render.strError>>)]
            ELSE [base(render) EXCEPT !.filesWritten = IF fileOpens THEN 1 ELSE 0]
                 @@ [parsed |-> TRUE, validated |-> TRUE,
                     response |-> [strContentType |-> "image/png", code |-> "",
                                   message |-> <<>>, data |-> render.vecPngData]]
        Validated(valid, render) ==
            IF ~valid.ret
            THEN base(render) @@ [parsed |-> TRUE, validated |-> FALSE,
                          response |-> ErrorResponse("INVALID_REQUEST", valid.strError)]
            ELSE Rendered(render)
        Parsed(parsed) ==
            IF ~parsed.ret
            THEN none @@ [parsed |-> FALSE, validated |-> FALSE,
                          response |-> ErrorResponse("INVALID_REQUEST",
                                                     <<"Failed to parse map request">>)]
            ELSE The({ Validated(valid, render) :
                       valid \in {ValidateMapRequestParameters(parsed.request, config)},
                       render \in {RenderMap(parsed.request, <<>>, initialized,
                                             config, png)} })
    IN  The({ Parsed(parsed) : parsed \in {ParseMapRequest(body, config, hasJson)} })

\* the whole handler: parse, validate, render, save the file, fill the response
HandleGenerateRequest(body, config, hasJson, initialized, png, fileOpens) ==
    LET none == [strError |-> NoSetError, allocated |-> FALSE, encodes |-> 0,
                 renderCalls |-> 0, filesWritten |-> 0]
        base(render) ==
            [strError |-> render.strError, allocated |-> render.allocated,
             encodes |-> render.encodes, renderCalls |-> 1, filesWritten |-> 0]
        Rendered(render) ==
            IF render.ret # "true"
            THEN base(render)
                 @@ [parsed |-> TRUE, validated |-> TRUE,
                     response |-> ErrorResponse("RENDER_FAILED", <<render.strError>>)]
            ELSE [base(render) EXCEPT !.filesWritten = IF fileOpens THEN 1 ELSE 0]
                 @@ [parsed |-> TRUE, validated |-> TRUE,
                     response |-> [strContentType |-> "image/png", code |-> "",
                                   message |-> <<>>, data |-> render.vecPngData]]
        Validated(request, valid) ==
            IF ~valid.ret
            THEN none @@ [parsed |-> TRUE, validated |-> FALSE,
                          response |-> ErrorResponse("INVALID_REQUEST", valid.strError)]
            ELSE The({ Rendered(render) :
                       render \in {RenderMap(request, <<>>, initialized, config, png)} })
        Parsed(parsed) ==
            IF ~parsed.ret
            THEN none @@ [parsed |-> FALSE, validated |-> FALSE,
                          response |-> ErrorResponse("INVALID_REQUEST",
                                                     <<"Failed to parse map request">>)]
            ELSE The({ Validated(parsed.request, valid) :
                       valid \in {ValidateMapRequestParameters(parsed.request, config)} })
    IN  The({ Parsed(parsed) : parsed \in {ParseMapRequest(body, config, hasJson)} })

----------------------------------------------------------------------------
(* The /generate handler: SpecGenerate *)

GenerateBodies ==
    {BodyEmpty, BodyMalformed}
    \cup { JsonBody(kind, box, w, h, layers) :
             kind \in {"array", "fields", "absent"},
             box \in {BoxScenario, BoxInverted, BoxLonOut, BoxLatOut},
             w \in {Absent, Present(0), Present(2), Present(SmallMax + 1),
                    Present(DefaultMaxImageWidth + 1)},
             h \in {Absent, Present(1), Present(MaxDim)},
             layers \in {AbsentList} \cup {Present(l) : l \in ValidateLayerLists} }

InitGenerate ==
    /\ m_config \in Configs
    /\ hasNlohmannJson \in BOOLEAN
    /\ m_bInitialized = TRUE
    /\ m_strError = ""
    /\ op = "idle"
    /\ args = <<>>
    /\ out = <<>>
    /\ NoPngCalls
    /\ NoServerCalls

\* one POST /generate is handled from its body to its response
GenerateCall ==
    /\ op = "idle"
    /\ \E body \in GenerateBodies, png \in PngOutcomes, fileOpens \in BOOLEAN :
          LET parsed == ParseMapRequest(body, m_config, hasNlohmannJson)
              accepted ==
                  parsed.ret
                  /\ ValidateMapRequestParameters(parsed.request, m_config).ret
              \* the request asks for a canvas RenderMap would create
              renderable ==
                  /\ parsed.ret
                  /\ DimensionsPositive(parsed.request)
                  /\ WidthWithinMax(parsed.request, m_config)
                  /\ HeightWithinMax(parsed.request, m_config)
          IN  /\ renderable =>
                    parsed.request.m_nWidth * parsed.request.m_nHeight <= MaxCanvasPixels
              /\ ~accepted => (png = PngOk /\ fileOpens)
              /\ args' = [body |-> body, png |-> png, fileOpens |-> fileOpens]
              /\ out' = HandleGenerateRequest(body, m_config, hasNlohmannJson,
                                              m_bInitialized, png, fileOpens)
              /\ m_strError' = AfterSetError(m_strError, out'.strError)
    /\ op' = "HandleGenerateRequest"
    /\ UNCHANGED <<threads, encoders, heap, m_pDbManager, queries, server, requests, m_config, hasNlohmannJson, m_bInitialized>>

NextGenerate == GenerateCall \/ ReturnToCaller

SpecGenerate == InitGenerate /\ [][NextGenerate]_vars

\* C3: in HandleGenerateRequest RenderMap runs only after ParseMapRequest and
\* ValidateMapRequestParameters both succeeded; after a parse or validation
\* failure no canvas exists, nothing was encoded, no file was written and the
\* response is a JSON error with code INVALID_REQUEST.
C3_RenderOnlyAfterValidation ==
    op = "HandleGenerateRequest"
        => LET parsed == ParseMapRequest(args.body, m_config, hasNlohmannJson)
               rejected == ~parsed.ret
                           \/ ~RequestAcceptable(parsed.request, m_config)
           IN  /\ out.renderCalls = 1 => ~rejected
               /\ rejected
                     => /\ out.renderCalls = 0
                        /\ ~out.allocated
                        /\ out.encodes = 0
                        /\ out.filesWritten = 0
                        /\ out.response.strContentType = "application/json"
                        /\ out.response.code = "INVALID_REQUEST"
                        /\ out.response.data = <<>>

\* a body that parses but names a bbox outside the longitude range is answered
\* INVALID_REQUEST with the longitude message, and nothing was rendered
C3_Witness ==
    /\ op = "HandleGenerateRequest"
    /\ args.body.kind = "object"
    /\ args.body.box = BoxLonOut
    /\ out.parsed
    /\ ~out.validated
    /\ out.renderCalls = 0
    /\ out.response.code = "INVALID_REQUEST"
    /\ out.response.message = <<"Longitude values must be between -180 and 180 degrees">>

----------------------------------------------------------------------------
(* CreateBlankImage alone: SpecBlank *)

BlankSizes == {-1, 0, 1, 2, MaxDim}
BlankColors ==
    RenderColors \cup {ColorSixDigits, ColorNotHex3, ColorCCCCCC,
                       <<"#", "f", "f", "f", "f", "f", "f", "z", "z">>,
                       <<"#", "-", "1", " ", "f", "0", "0">>}

\* RenderMap hands CreateBlankImage the request's size and background
CreateBlankImageCall ==
    /\ op = "idle"
    /\ \E w \in BlankSizes, h \in BlankSizes, color \in BlankColors :
          /\ args' = [nWidth |-> w, nHeight |-> h, strBgColor |-> color]
          /\ out' = CreateBlankImage(w, h, color)
          /\ m_strError' = AfterSetError(m_strError, out'.strError)
    /\ op' = "CreateBlankImage"
    /\ UNCHANGED <<threads, encoders, heap, m_pDbManager, queries, server, requests, m_config, hasNlohmannJson, m_bInitialized>>

NextBlank == CreateBlankImageCall \/ ReturnToCaller

SpecBlank == Init /\ [][NextBlank]_vars

\* a colour string the parser is specified to read: '#' and 6 or 8 hex digits
WellFormedColor(color) ==
    /\ color # <<>>
    /\ Head(color) = "#"
    /\ Len(Tail(color)) \in {6, 8}
    /\ \A k \in 1..Len(Tail(color)) : IsHexChar(Tail(color)[k])

\* the channel value of two hex digits
TwoDigits(color, k) == 16 * HexValue(color[k]) + HexValue(color[k + 1])

\* the pixel a colour string stands for: its channels, else opaque white
ExpectedBackground(color) ==
    IF WellFormedColor(color)
    THEN <<TwoDigits(color, 2), TwoDigits(color, 4), TwoDigits(color, 6),
           IF Len(color) = 9 THEN TwoDigits(color, 8) ELSE 255>>
    ELSE <<255, 255, 255, 255>>

\* C7 as claimed: for width, height > 0 CreateBlankImage returns width*height
\* pixels (width*height*4 bytes), all equal to the parsed background, opaque
\* white when the string is empty or unparseable; the string never makes it
\* fail or raise.  (Three-digit colours are left to C8.)
C7_Claimed_BlankImageNeverRaises ==
    (op = "CreateBlankImage" /\ args.nWidth > 0 /\ args.nHeight > 0
        /\ ~(Len(args.strBgColor) = 4 /\ ColorFormatOk(args.strBgColor)
             /\ ColorDigitsOk(args.strBgColor)))
        => /\ out.ret = "true"
           /\ Len(out.vecImageData) = args.nWidth * args.nHeight
           /\ \A i \in 1..Len(out.vecImageData) :
                  out.vecImageData[i] = ExpectedBackground(args.strBgColor)

\* a style colour the parse of DrawFeatures is claimed to skip: empty, without
\* '#', too short, or with a character that is no hex digit
MalformedStyleColor(color) == ~WellFormedColor(color)

\* C21: a malformed fill or stroke colour never makes compositing fail: with
\* such a colour in the style of a listed layer DrawFeatures still returns
\* true (so RenderMap goes on to encode), and the default channels are used,
\* seen as the default fill (255,0,0) at the centre of an 8x8 canvas when the
\* last layer's fill is malformed.
C21_Claimed_MalformedStyleColourIgnored ==
    (op = "RenderMap" /\ m_bInitialized /\ EntryChecksPass(args.request, m_config)
        /\ WellFormedColor(args.request.m_strBackgroundColor)
        /\ args.request.m_vecLayers # <<>>
        /\ args.png = PngOk)
        => LET request == args.request
               last == StyleOf(request.m_mapStyles,
                               request.m_vecLayers[Len(request.m_vecLayers)])
           IN  /\ out.ret = "true"
               /\ (/\ request.m_nWidth = 8 /\ request.m_nHeight = 8
                   /\ MalformedStyleColor(last.m_strFillColor))
                     => \A k \in 1..3 :
                          PixelAt(out.vecImageData, 8, 4, 4)[k] = <<255, 0, 0>>[k]

\* C28: DrawFeatures writes only pixels inside the placeholder rectangle
\* [startX..endX] x [startY..endY], whatever the stroke width: after a RenderMap
\* on a white background every pixel outside the rectangle is still the
\* background, and the buffer still has width*height pixels.
C28_Claimed_WritesInsideRectangleOnly ==
    (op = "RenderMap" /\ out.ret = "true"
        /\ args.request.m_strBackgroundColor = ColorWhite)
        => LET w == args.request.m_nWidth
               h == args.request.m_nHeight
               rect == PlaceholderRect(w, h)
           IN  /\ Len(out.vecImageData) = w * h
               /\ \A x \in 0..(w - 1), y \in 0..(h - 1) :
                     (x < rect.startX \/ x > rect.endX \/ y < rect.startY
                         \/ y > rect.endY)
                        => PixelAt(out.vecImageData, w, x, y) = <<255, 255, 255, 255>>

\* C29: after a successful encode (EncodeRGBA through EncodeToMemory, and hence
\* RenderMap) the output vector holds exactly one PNG stream of the pixels,
\* whatever it held before the call, and encoding the same pixels into the
\* same vector once more leaves the same contents.
C29_Claimed_OutputIsOneStream ==
    (op = "RenderMap" /\ out.ret = "true")
        => LET w == args.request.m_nWidth
               h == args.request.m_nHeight
               again == EncodeToMemory(out.vecImageData, w, h, out.vecPngData, PngOk)
           IN  /\ out.vecPngData = <<PngStream(out.vecImageData, w, h)>>
               /\ again.ret
               /\ again.vecOutput = out.vecPngData

----------------------------------------------------------------------------
(* WorldToPixel alone: SpecW2P *)

W2PBoxes == {BoxScenario, BoxWorld, BoundingBox(0, 0, 3, 7), BoxInverted}
W2PSizes == {0, 1, 3, MaxDim, DefaultMaxImageWidth}
\* world coordinates: inside and outside the boxes, far outside, and NaN
W2PCoords ==
    {NaN} \cup {Finite(v) : v \in {-2000000000, -1000000, -181, -11, -10, -3, 0,
                                   1, 2, 3, 7, 10, 11, 180, 1000000, 2000000000}}

\* a caller maps one world point to a pixel
WorldToPixelCall ==
    /\ op = "idle"
    /\ \E x \in W2PCoords, y \in W2PCoords, bbox \in W2PBoxes,
          w \in W2PSizes, h \in W2PSizes :
          /\ args' = [dWorldX |-> x, dWorldY |-> y, bbox |-> bbox,
                      nWidth |-> w, nHeight |-> h]
          /\ out' \in WorldToPixel(x, y, bbox, w, h)
    /\ op' = "WorldToPixel"
    /\ UNCHANGED <<threads, encoders, heap, m_pDbManager, queries, server, requests, m_config, hasNlohmannJson, m_bInitialized, m_strError>>

NextW2P == WorldToPixelCall \/ ReturnToCaller

SpecW2P == Init /\ [][NextW2P]_vars

\* C10: for a valid bbox and width, height > 0, WorldToPixel returns pixelX in
\* [0, width-1] and pixelY in [0, height-1] for every world coordinate, points
\* outside the bbox included.
C10_PixelWithinCanvas ==
    (op = "WorldToPixel" /\ BoxOrdered([m_bbox |-> args.bbox])
        /\ args.nWidth > 0 /\ args.nHeight > 0)
        => /\ out.ret
           /\ 0 <= out.nPixelX /\ out.nPixelX <= args.nWidth - 1
           /\ 0 <= out.nPixelY /\ out.nPixelY <= args.nHeight - 1

\* a point east and south of the bbox lands on the last column and last row
C10_Witness ==
    /\ op = "WorldToPixel"
    /\ args.bbox = BoxScenario
    /\ args.dWorldX = Finite(1000000)
    /\ args.dWorldY = Finite(-11)
    /\ args.nWidth = 3
    /\ args.nHeight = MaxDim
    /\ out.ret
    /\ out.nPixelX = 2
    /\ out.nPixelY = MaxDim - 1

\* a finite point inside the bbox, handed to a call that succeeded
InsideCall ==
    /\ op = "WorldToPixel"
    /\ out.ret
    /\ ~args.dWorldX.nan /\ ~args.dWorldY.nan
    /\ args.bbox.m_dMinX <= args.dWorldX.v /\ args.dWorldX.v <= args.bbox.m_dMaxX
    /\ args.bbox.m_dMinY <= args.dWorldY.v /\ args.dWorldY.v <= args.bbox.m_dMaxY

\* xPercent * width and (1 - yPercent) * height as fractions XNum / XDen, YNum / YDen
XNum == (args.dWorldX.v - args.bbox.m_dMinX) * args.nWidth
XDen == args.bbox.m_dMaxX - args.bbox.m_dMinX
YNum == (args.bbox.m_dMaxY - args.dWorldY.v) * args.nHeight
YDen == args.bbox.m_dMaxY - args.bbox.m_dMinY

\* the nearest integer of num / den for num >= 0, den > 0
Nearest(num, den) == (2 * num + den) \div (2 * den)

\* xPercent and yPercent are doubles without rounding
ExactCall ==
    /\ \E e \in 0..9 : ((args.dWorldX.v - args.bbox.m_dMinX) * 2^e) % XDen = 0
    /\ \E e \in 0..9 : ((args.bbox.m_dMaxY - args.dWorldY.v) * 2^e) % YDen = 0

\* C11 as claimed: for a point inside the bbox the pixel is the nearest integer
\* of xPercent * width and of (1 - yPercent) * height, clamped to the canvas
\* (stated for the points whose percentages are exact doubles).
C11_Claimed_RoundsToNearest ==
    (InsideCall /\ ExactCall)
        => /\ out.nPixelX = Min(args.nWidth - 1, Nearest(XNum, XDen))
           /\ out.nPixelY = Min(args.nHeight - 1, Nearest(YNum, YDen))

\* px is the integer part of num / den clamped to size - 1; when the double
\* quotient is rounded, a whole num / den may also give the integer below
IntegerPartOf(px, num, den, size, exact) ==
    /\ 0 <= px /\ px <= size - 1
    /\ px * den <= num
    /\ \/ px = size - 1
       \/ num < (px + 1) * den
       \/ ~exact /\ num = (px + 1) * den

\* C11 amended: for a point inside the bbox the pixel is the integer part
\* (truncation, not the nearest integer) of the products xPercent * width and
\* (1 - yPercent) * height, clamped to the canvas.
C11_TruncatesTowardZero ==
    InsideCall
        => /\ IntegerPartOf(out.nPixelX, XNum, XDen, args.nWidth,
                            \E e \in 0..9 :
                                ((args.dWorldX.v - args.bbox.m_dMinX) * 2^e) % XDen = 0)
           /\ IntegerPartOf(out.nPixelY, YNum, YDen, args.nHeight,
                            \E e \in 0..9 :
                                ((args.bbox.m_dMaxY - args.dWorldY.v) * 2^e) % YDen = 0)

\* x = 1, y = -3 in [-10, 10]^2 on a 3x3 canvas: 1.65 and 1.95 both give 1
C11_Witness ==
    /\ op = "WorldToPixel"
    /\ args.bbox = BoxScenario
    /\ args.dWorldX = Finite(1)
    /\ args.dWorldY = Finite(-3)
    /\ args.nWidth = 3
    /\ args.nHeight = 3
    /\ out.ret
    /\ out.nPixelX = 1
    /\ out.nPixelY = 1

\* C12: for a valid bbox and width, height > 0 the four bbox corners map to the
\* four canvas corners: (minX,maxY) -> (0,0), (maxX,maxY) -> (width-1,0),
\* (minX,minY) -> (0,height-1), (maxX,minY) -> (width-1,height-1).
C12_CornersToCorners ==
    (op = "WorldToPixel" /\ BoxOrdered([m_bbox |-> args.bbox])
        /\ args.nWidth > 0 /\ args.nHeight > 0
        /\ ~args.dWorldX.nan /\ ~args.dWorldY.nan)
        => /\ out.ret
           /\ args.dWorldX.v = args.bbox.m_dMinX => out.nPixelX = 0
           /\ args.dWorldX.v = args.bbox.m_dMaxX => out.nPixelX = args.nWidth - 1
           /\ args.dWorldY.v = args.bbox.m_dMaxY => out.nPixelY = 0
           /\ args.dWorldY.v = args.bbox.m_dMinY => out.nPixelY = args.nHeight - 1

\* the south-east corner of [0,3]x[0,7] on a 3 x MaxDim canvas
C12_Witness ==
    /\ op = "WorldToPixel"
    /\ args.bbox = BoundingBox(0, 0, 3, 7)
    /\ args.dWorldX = Finite(3)
    /\ args.dWorldY = Finite(0)
    /\ args.nWidth = 3
    /\ args.nHeight = MaxDim
    /\ out.ret
    /\ out.nPixelX = 2
    /\ out.nPixelY = MaxDim - 1

----------------------------------------------------------------------------
(* The tile handler: SpecTile *)

TileSize == 256
MaxZoom == 20

DigitChars == <<"0", "1", "2", "3", "4", "5", "6", "7", "8", "9">>

\* std::to_string of a non-negative int, as its decimal digits
RECURSIVE to_string(_)
to_string(n) ==
    IF n < 10 THEN <<DigitChars[n + 1]>>
    ELSE Append(to_string(n \div 10), DigitChars[(n % 10) + 1])

\* the check without its upper limit on x
ValidateTileParameters_noMaxX(z, x, y) ==
    IF z < 0 \/ z > MaxZoom
    THEN [ret |-> FALSE, strError |-> <<"Zoom level must be between 0 and 20">>]
    ELSE IF x < 0
    THEN [ret |-> FALSE,
          strError |-> <<"Tile X coordinate must be between 0 and ", 2^z - 1>>]
    ELSE IF y < 0 \/ y > 2^z - 1
    THEN [ret |-> FALSE,
          strError |-> <<"Tile Y coordinate must be between 0 and ", 2^z - 1>>]
    ELSE [ret |-> TRUE, strError |-> <<>>]

\* maxTile = (1 << z) - 1 is computed only for 0 <= z <= 20
ValidateTileParameters(z, x, y) ==
    IF z < 0 \/ z > MaxZoom
    THEN [ret |-> FALSE, strError |-> <<"Zoom level must be between 0 and 20">>]
    ELSE IF x < 0 \/ x > 2^z - 1
    THEN [ret |-> FALSE,
          strError |-> <<"Tile X coordinate must be between 0 and ", 2^z - 1>>]
    ELSE IF y < 0 \/ y > 2^z - 1
    THEN [ret |-> FALSE,
          strError |-> <<"Tile Y coordinate must be between 0 and ", 2^z - 1>>]
    ELSE [ret |-> TRUE, strError |-> <<>>]

\* "Z:" + to_string(z) + " X:" + to_string(x) + " Y:" + to_string(y)
TileText(z, x, y) ==
    <<"Z", ":">> \o to_string(z) \o <<" ", "X", ":">> \o to_string(x)
        \o <<" ", "Y", ":">> \o to_string(y)

\* the buffer indexes (pixels, from 0) the label loops write: for character
\* i < 20 of the text the 8x8 block at px = 10 + i * 8, py = 20, each write
\* guarded by xpos < tileSize and ypos < tileSize
LabelWrites(text) ==
    { (20 + c[2]) * TileSize + (10 + c[1] * 8 + c[3]) :
        c \in { t \in {i \in 0..(Len(text) - 1) : i < 20} \X (0..7) \X (0..7) :
                    10 + t[1] * 8 + t[3] < TileSize /\ 20 + t[2] < TileSize } }

\* The handler's buffer std::vector<uint8_t>(tileSize * tileSize * 4), held as
\* its byte count, the colour the fill loops give every pixel, the pixel indexes
\* the label loops overwrite with their colour, and the indexes of label writes
\* that fall outside the vector.
TileBuffer(shade, ink, writes) ==
    [bytes |-> TileSize * TileSize * 4,
     fill |-> shade,
     ink |-> ink,
     painted |-> {i \in writes : 0 <= i /\ i < TileSize * TileSize},
     outside |-> {i \in writes : i < 0 \/ i >= TileSize * TileSize}]

\* the four bytes of pixel i (from 0) of a buffer
TilePixel(buffer, i) == IF i \in buffer.painted THEN buffer.ink ELSE buffer.fill

\* the label blocks drawn in the other shade instead of red
TileImage_greyLabel(z, x, y) ==
    TileBuffer(IF (x + y) % 2 = 0 THEN <<100, 100, 100, 255>>
               ELSE <<200, 200, 200, 255>>,
               <<200, 200, 200, 255>>, LabelWrites(TileText(z, x, y)))

\* the 256x256 buffer: the shade of (x + y) % 2, then the label blocks in red
TileImage(z, x, y) ==
    TileBuffer(IF (x + y) % 2 = 0 THEN <<100, 100, 100, 255>>
               ELSE <<200, 200, 200, 255>>,
               <<255, 0, 0, 255>>, LabelWrites(TileText(z, x, y)))

\* what the handler leaves behind: res.status (0 while the handler has not set
\* it), strContentType, vecResponse, the pixel buffer if one was made, and how
\* many encodes and tile files there were
HandleTileRequest(z, x, y, vecResponse, png, fileOpens) ==
    LET Encoded(vecImageData, enc) ==
            IF enc.ret
            THEN [status |-> 0, strContentType |-> "image/png",
                  vecResponse |-> enc.vecOutput, allocated |-> TRUE,
                  vecImageData |-> vecImageData, encodes |-> 1,
                  filesWritten |-> IF fileOpens THEN 1 ELSE 0]
            ELSE [status |-> 0, strContentType |-> "", vecResponse |-> <<>>,
                  allocated |-> TRUE, vecImageData |-> vecImageData,
                  encodes |-> 1, filesWritten |-> 0]
        Drawn(vecImageData) ==
            The({ Encoded(vecImageData, enc) :
                  enc \in {EncodeToMemory(vecImageData, TileSize, TileSize,
                                          vecResponse, png)} })
    IN  IF ~ValidateTileParameters(z, x, y).ret
        THEN [status |-> 400, strContentType |-> "application/json",
              vecResponse |-> <<>>, allocated |-> FALSE, vecImageData |-> <<>>,
              encodes |-> 0, filesWritten |-> 0]
        ELSE The({ Drawn(vecImageData) : vecImageData \in {TileImage(z, x, y)} })

TileZooms == {-1, 0, 1, 2, MaxZoom, MaxZoom + 1}
TileXs == {-1, 0, 1, 2^MaxZoom - 1, 2^MaxZoom}
TileYs == {-1, 0, 2, 2^MaxZoom - 1, 2^MaxZoom}

\* the calls of the handler: every tile with a working encoder and an empty
\* response vector, the refused tiles also with a filled vector, and tile
\* (1, 1, 0) with every outcome of libpng and of opening the tile file
TileCalls ==
    { <<z, x, y, <<>>, PngOk, TRUE>> : z \in TileZooms, x \in TileXs, y \in TileYs }
    \cup { <<z, x, y, StalePng, PngOk, TRUE>> :
             z \in {-1, 1, MaxZoom + 1}, x \in {-1, 2}, y \in {-1, 2} }
    \cup { <<1, 1, 0, <<>>, png, fileOpens>> :
             png \in PngOutcomes, fileOpens \in BOOLEAN }

\* one GET /tile/z/x/y.png is handled
TileCall ==
    /\ op = "idle"
    /\ \E call \in TileCalls :
          /\ args' = [z |-> call[1], x |-> call[2], y |-> call[3],
                      vecResponse |-> call[4], png |-> call[5], fileOpens |-> call[6]]
          /\ out' = HandleTileRequest(call[1], call[2], call[3], call[4], call[5],
                                      call[6])
    /\ op' = "HandleTileRequest"
    /\ UNCHANGED <<threads, encoders, heap, m_pDbManager, queries, server, requests, m_config, hasNlohmannJson, m_bInitialized, m_strError>>

\* z in [0,20] and x, y in [0, 2^z - 1]
TileInRange(z, x, y) ==
    /\ 0 <= z /\ z <= 20
    /\ 0 <= x /\ x <= 2^z - 1
    /\ 0 <= y /\ y <= 2^z - 1

\* C13: for a (z,x,y) outside z in [0,20], x,y in [0,2^z-1] HandleTileRequest
\* makes no pixel buffer, calls no PNG encode, writes no tile file and leaves
\* the response body empty.
C13_TileComputedOnlyInRange ==
    (op = "HandleTileRequest" /\ ~TileInRange(args.z, args.x, args.y))
        => /\ ~out.allocated
           /\ out.vecImageData = <<>>
           /\ out.encodes = 0
           /\ out.filesWritten = 0
           /\ out.vecResponse = <<>>

\* x = 2 at zoom 1, one past the last column, with a filled response vector
C13_Witness ==
    /\ op = "HandleTileRequest"
    /\ args.z = 1
    /\ args.x = 2
    /\ args.y = 2
    /\ args.vecResponse = StalePng
    /\ out.status = 400
    /\ out.vecResponse = <<>>
    /\ ~out.allocated

\* number of decimal digits of n >= 0
RECURSIVE DigitCount(_)
DigitCount(n) == IF n < 10 THEN 1 ELSE 1 + DigitCount(n \div 10)

\* number of label blocks: the characters of 'Z:{z} X:{x} Y:{y}', at most 20
LabelBlocks(z, x, y) ==
    Min(20, 2 + DigitCount(z) + 3 + DigitCount(x) + 3 + DigitCount(y))

\* C14: for a valid (z,x,y) the buffer is 256x256 pixels (x4 bytes), each the
\* shade of (x+y) mod 2 (grey 100 when even, grey 200 when odd, alpha 255),
\* except the label blocks: opaque red 8x8 squares at columns 10+8*i, rows
\* 20..27, one per character i of the text up to 20; no label write falls
\* outside the buffer.
C14_CheckerboardAndLabel ==
    (op = "HandleTileRequest" /\ TileInRange(args.z, args.x, args.y))
        => /\ out.allocated
           /\ out.vecImageData.bytes = 256 * 256 * 4
           /\ out.vecImageData.outside = {}
           /\ \A blocks \in {LabelBlocks(args.z, args.x, args.y)} :
              \A shade \in {IF (args.x + args.y) % 2 = 0 THEN <<100, 100, 100, 255>>
                             ELSE <<200, 200, 200, 255>>} :
              \A py \in 0..255 : \A px \in 0..255 :
                  TilePixel(out.vecImageData, py * 256 + px) =
                      IF /\ 20 <= py /\ py <= 27 /\ 10 <= px
                         /\ (px - 10) \div 8 < blocks
                      THEN <<255, 0, 0, 255>>
                      ELSE shade

\* tile (20, 1048575, 1048575): an even sum, and a 24-character text cut to 20
\* blocks, the last one ending at column 169
C14_Witness ==
    /\ op = "HandleTileRequest"
    /\ args.z = 20
    /\ args.x = 2^20 - 1
    /\ args.y = 2^20 - 1
    /\ Len(TileText(args.z, args.x, args.y)) = 24
    /\ TilePixel(out.vecImageData, 0) = <<100, 100, 100, 255>>
    /\ TilePixel(out.vecImageData, 20 * 256 + 10) = <<255, 0, 0, 255>>
    /\ TilePixel(out.vecImageData, 27 * 256 + 169) = <<255, 0, 0, 255>>
    /\ TilePixel(out.vecImageData, 27 * 256 + 170) = <<100, 100, 100, 255>>
    /\ TilePixel(out.vecImageData, 28 * 256 + 10) = <<100, 100, 100, 255>>

----------------------------------------------------------------------------
(* The GET /tile/(\d+)/(\d+)/(\d+)\.png route around HandleTileRequest *)

\* value of a string of decimal digits, -1 when it is larger than an int
RECURSIVE DecimalValue(_)
DecimalValue(s) ==
    IF s = <<>> THEN 0
    ELSE The({ IF head < 0 \/ head > (IntMax - d) \div 10 THEN -1
               ELSE 10 * head + d :
               head \in {DecimalValue(SubSeq(s, 1, Len(s) - 1))},
               d \in {CHOOSE d \in 0..9 : DigitChars[d + 1] = s[Len(s)]} })

\* std::stoi of a capture of (\d+): its value, or std::out_of_range when the
\* value does not fit an int
StoiDecimal(s) ==
    The({ IF n < 0 THEN [thrown |-> TRUE, value |-> 0]
          ELSE [thrown |-> FALSE, value |-> n] : n \in {DecimalValue(s)} })

\* the route's lambda: the three captures are converted, HandleTileRequest
\* fills a fresh vector, and a vector left empty is answered as 'not found';
\* status is res.status when the lambda returns (0: never assigned), raised
\* tells that std::stoi threw out of the lambda
TileRoute(matches, png, fileOpens) ==
    LET Deliver(handled) ==
            IF handled.vecResponse # <<>>
            THEN [raised |-> FALSE, status |-> handled.status,
                  body |-> handled.vecResponse,
                  contentType |-> handled.strContentType, handled |-> handled.status]
            ELSE [raised |-> FALSE, status |-> 404, body |-> "Tile not found",
                  contentType |-> "text/plain", handled |-> handled.status]
        Converted(z, x, y) ==
            IF z.thrown \/ x.thrown \/ y.thrown
            THEN [raised |-> TRUE, status |-> 0, body |-> <<>>, contentType |-> "",
                  handled |-> 0]
            ELSE The({ Deliver(handled) :
                       handled \in {HandleTileRequest(z.value, x.value, y.value,
                                                      <<>>, png, fileOpens)} })
    IN  The({ Converted(z, x, y) : z \in {StoiDecimal(matches[1])},
                                   x \in {StoiDecimal(matches[2])},
                                   y \in {StoiDecimal(matches[3])} })

\* captures of the route: tiles inside and outside the grid of their zoom, a
\* zoom past the maximum, and a number that does not fit an int
RouteZooms == {to_string(0), to_string(1), to_string(MaxZoom), to_string(MaxZoom + 1)}
RouteXs ==
    {to_string(0), to_string(1), to_string(2), to_string(2^MaxZoom),
     Append(to_string(IntMax \div 10), "8")}
RouteYs == {to_string(0), to_string(1), to_string(2), to_string(2^MaxZoom - 1)}

\* one GET /tile/z/x/y.png is routed
TileRouteCall ==
    /\ op = "idle"
    /\ \E zs \in RouteZooms, xs \in RouteXs, ys \in RouteYs, png \in {PngOk},
          fileOpens \in BOOLEAN :
          /\ args' = [matches |-> <<zs, xs, ys>>, png |-> png, fileOpens |-> fileOpens]
          /\ out' = TileRoute(<<zs, xs, ys>>, png, fileOpens)
    /\ op' = "TileRoute"
    /\ UNCHANGED <<threads, encoders, heap, m_pDbManager, queries, server, requests, m_config, hasNlohmannJson, m_bInitialized, m_strError>>

NextTile == TileCall \/ TileRouteCall \/ ReturnToCaller

SpecTile == InitGenerate /\ [][NextTile]_vars

\* C27: a tile request that ValidateTileParameters rejects is answered with
\* HTTP 400: the status the /tile route delivers is the 400 that
\* HandleTileRequest set.
C27_Claimed_RejectedTileAnswered400 ==
    (op = "TileRoute" /\ ~out.raised
        /\ ~ValidateTileParameters(DecimalValue(args.matches[1]),
                                   DecimalValue(args.matches[2]),
                                   DecimalValue(args.matches[3])).ret)
        => out.status = 400

----------------------------------------------------------------------------
(* MapRequest::GenerateCacheKey: SpecKey *)

\* the printable characters in the order of their codes: 32 to 95, 97 to 126
PrintableLow ==
    <<" ", "!", "\"", "#", "$", "%", "&", "'", "(", ")", "*", "+", ",", "-", ".",
      "/", "0", "1", "2", "3", "4", "5", "6", "7", "8", "9", ":", ";", "<", "=",
      ">", "?", "@", "A", "B", "C", "D", "E", "F", "G", "H", "I", "J", "K", "L",
      "M", "N", "O", "P", "Q", "R", "S", "T", "U", "V", "W", "X", "Y", "Z", "[",
      "\\", "]", "^", "_">>
PrintableHigh ==
    <<"a", "b", "c", "d", "e", "f", "g", "h", "i", "j", "k", "l", "m", "n", "o",
      "p", "q", "r", "s", "t", "u", "v", "w", "x", "y", "z", "{", "|", "}", "~">>

CharCode(c) ==
    IF \E i \in DOMAIN PrintableLow : PrintableLow[i] = c
    THEN 31 + The({i \in DOMAIN PrintableLow : PrintableLow[i] = c})
    ELSE 96 + The({i \in DOMAIN PrintableHigh : PrintableHigh[i] = c})

\* oss << int
FormatInt(n) == IF n < 0 THEN <<"-">> \o to_string(-n) ELSE to_string(n)

\* oss << double at the default precision of the stream, for a whole value of
\* magnitude below 10^6 (it is written without a fraction or an exponent)
FormatDouble(d) == FormatInt(d)

\* the text from the layer loop: ",layer:" and the name, for each layer in order
RECURSIVE LayerKeyText(_)
LayerKeyText(layers) ==
    IF layers = <<>> THEN <<>>
    ELSE <<",", "l", "a", "y", "e", "r", ":">> \o Head(layers)
             \o LayerKeyText(Tail(layers))

\* strKey = oss.str()
CacheKeyString(request) ==
    FormatDouble(request.m_bbox.m_dMinX) \o <<",">>
        \o FormatDouble(request.m_bbox.m_dMinY) \o <<",">>
        \o FormatDouble(request.m_bbox.m_dMaxX) \o <<",">>
        \o FormatDouble(request.m_bbox.m_dMaxY) \o <<",">>
        \o FormatInt(request.m_nWidth) \o <<"x">> \o FormatInt(request.m_nHeight)
        \o <<",", "b", "g", ":">> \o request.m_strBackgroundColor
        \o LayerKeyText(request.m_vecLayers)

HashModulus == 2^15

\* 31^k modulo HashModulus
RECURSIVE HashPower(_)
HashPower(k) ==
    IF k = 0 THEN 1
    ELSE IF k % 2 = 0 THEN (HashPower(k \div 2) * HashPower(k \div 2)) % HashModulus
    ELSE (31 * HashPower(k - 1)) % HashModulus

\* std::hash<std::string> is implementation-defined: a deterministic fold of the
\* character codes str[lo..hi], nHash = nHash * 31 + code, into a bounded
\* unsigned value stands for it
RECURSIVE StringHash(_, _, _)
StringHash(str, lo, hi) ==
    IF lo > hi THEN 0
    ELSE IF lo = hi THEN CharCode(str[lo]) % HashModulus
    ELSE (StringHash(str, lo, (lo + hi) \div 2) * HashPower(hi - (lo + hi) \div 2)
            + StringHash(str, (lo + hi) \div 2 + 1, hi)) % HashModulus

\* the pre-hash string and the returned key std::to_string(nHash)
GenerateCacheKey(request) ==
    The({ [strKey |-> strKey, ret |-> to_string(StringHash(strKey, 1, Len(strKey)))] :
          strKey \in {CacheKeyString(request)} })

NameX == <<"x">>
NameXLayerX == <<"x", ",", "l", "a", "y", "e", "r", ":", "x">>

\* requests that differ in the fields the key reads and in the styles it skips
KeyRequests ==
    { MapRequest(bbox, w, 1, layers, NoStyles, ColorWhite) :
        bbox \in {BoxScenario, BoxWorld}, w \in {-1, 100},
        layers \in ListsUpTo({NameRoads, NameX, NameXLayerX}, 2) }
    \cup { MapRequest(BoxScenario, 100, 1, <<NameRoads>>, NameRoads :> StyleRed,
                      ColorWhite) }

\* GenerateCacheKey is called on two requests
GenerateCacheKeyCall ==
    /\ op = "idle"
    /\ \E first \in KeyRequests : \E second \in KeyRequests :
          /\ args' = [first |-> first, second |-> second]
          /\ out' = [first |-> GenerateCacheKey(first),
                     second |-> GenerateCacheKey(second)]
    /\ op' = "GenerateCacheKey"
    /\ UNCHANGED <<threads, encoders, heap, m_pDbManager, queries, server, requests, m_config, hasNlohmannJson, m_bInitialized, m_strError>>

NextKey == GenerateCacheKeyCall \/ ReturnToCaller

SpecKey == InitGenerate /\ [][NextKey]_vars

\* the two requests agree on bbox, width, height and background colour
SameKeyFieldsButLayers(a, b) ==
    /\ a.m_bbox = b.m_bbox
    /\ a.m_nWidth = b.m_nWidth
    /\ a.m_nHeight = b.m_nHeight
    /\ a.m_strBackgroundColor = b.m_strBackgroundColor

\* the layer lists hold the same distinct names in a different order
ReorderedLayers(k, l) ==
    /\ Len(k) = Len(l)
    /\ k # l
    /\ \A i, j \in DOMAIN k : i # j => k[i] # k[j]
    /\ {k[i] : i \in DOMAIN k} = {l[i] : i \in DOMAIN l}

\* C15: GenerateCacheKey is a pure function of bbox, width, height, background
\* colour and the ordered layer list: requests equal in all of these get the
\* same key, and requests that differ only in the order of their distinct layer
\* names get different pre-hash key strings.
C15_Claimed_KeyPureAndOrderSensitive ==
    op = "GenerateCacheKey"
        => /\ (/\ SameKeyFieldsButLayers(args.first, args.second)
               /\ args.first.m_vecLayers = args.second.m_vecLayers)
                  => out.first.ret = out.second.ret
           /\ (/\ SameKeyFieldsButLayers(args.first, args.second)
               /\ ReorderedLayers(args.first.m_vecLayers, args.second.m_vecLayers))
                  => out.first.strKey # out.second.strKey

\* C30: two MapRequests with the same GenerateCacheKey pre-hash string are
\* rendered by RenderMap to the same pixel buffer (and the same result), so
\* that what is stored under the key serves either request.
C30_Claimed_SameKeySamePixels ==
    (op = "GenerateCacheKey" /\ out.first.strKey = out.second.strKey)
        => LET one == RenderMap(args.first, <<>>, TRUE, m_config, PngOk)
               other == RenderMap(args.second, <<>>, TRUE, m_config, PngOk)
           IN  /\ one.ret = other.ret
               /\ one.vecImageData = other.vecImageData

----------------------------------------------------------------------------
(* PngEncoder step by step, called from several threads: SpecPng *)

\* most PngEncoder objects constructed in one behaviour
MaxEncoders == 4

\* a PngEncoder as its member initialisers leave it; owner is the thread whose
\* stack holds it, temporary marks the PngEncoder() of RenderMap's error text,
\* encodes counts the EncodeRGBA / SaveRGBA calls made on it; m_strError is
\* kept as the parts it was concatenated from
NewEncoder(t, temporary) ==
    [owner |-> t, alive |-> TRUE, temporary |-> temporary, m_pPngStruct |-> FALSE,
     m_pPngInfo |-> FALSE, m_bInitialized |-> FALSE, m_strError |-> <<>>,
     encodes |-> 0]

\* what the two libpng constructors can do
InitOutcomes == {"ok", "no_struct", "no_info"}

SetError(encoder, strError) == [encoder EXCEPT !.m_strError = strError]

Initialize(encoder, outcome) ==
    IF encoder.m_bInitialized THEN encoder
    ELSE IF outcome = "no_struct"
    THEN SetError([encoder EXCEPT !.m_pPngStruct = FALSE],
                  <<"Failed to create PNG write structure">>)
    ELSE IF outcome = "no_info"
    THEN SetError([encoder EXCEPT !.m_pPngStruct = TRUE, !.m_pPngInfo = FALSE],
                  <<"Failed to create PNG info structure">>)
    ELSE [encoder EXCEPT !.m_pPngStruct = TRUE, !.m_pPngInfo = TRUE,
                         !.m_bInitialized = TRUE]

Cleanup(encoder) ==
    [encoder EXCEPT !.m_pPngStruct = FALSE, !.m_pPngInfo = FALSE,
                    !.m_bInitialized = FALSE]

\* PngEncoder::PngEncoder(): Initialize, and Cleanup when it failed
PngEncoder(t, temporary, outcome) ==
    The({ IF made.m_bInitialized THEN made ELSE Cleanup(made) :
          made \in {Initialize(NewEncoder(t, temporary), outcome)} })

\* PngEncoder::~PngEncoder(): Cleanup, and the object is gone
Destroyed(encoder) ==
    [Cleanup(encoder) EXCEPT !.alive = FALSE, !.m_strError = <<>>]

\* one encoder object shared by every call, as a function-static would be
EncoderSlot_static(objects) == 1

\* a local PngEncoder is a new object
EncoderSlot(objects) == Len(objects) + 1

Put(objects, slot, encoder) ==
    IF slot > Len(objects) THEN Append(objects, encoder)
    ELSE [objects EXCEPT ![slot] = encoder]

\* the static functions and who calls them: RenderMap and HandleTileRequest
\* call EncodeToMemory, SaveToFile is called from outside the server
PngCallSites ==
    { [call |-> "EncodeToMemory", caller |-> "RenderMap"],
      [call |-> "EncodeToMemory", caller |-> "HandleTileRequest"],
      [call |-> "SaveToFile", caller |-> "other"] }

\* messages libpng passes to PngErrorCallback: from png_set_IHDR and
\* png_write_info, and from png_write_image and png_write_end
HeaderErrors == {"Invalid IHDR data"}
ImageErrors(call) ==
    IF call = "SaveToFile" THEN {"Write Error"} ELSE {"insufficient memory"}

\* a thread calls EncodeToMemory or SaveToFile
PngCall(t) ==
    /\ threads[t].pc = "idle"
    /\ Len(encoders) + 2 * (Cardinality({u \in Threads : threads[u].pc # "idle"}) + 1)
           <= MaxEncoders
    /\ \E site \in PngCallSites :
          threads' = [threads EXCEPT ![t] = [IdleFrame EXCEPT !.pc = "construct",
                                                !.call = site.call,
                                                !.caller = site.caller]]
    /\ UNCHANGED <<encoders, heap, m_pDbManager, queries, server, requests,
                   m_config, hasNlohmannJson, m_bInitialized,
                   m_strError, op, args, out>>

\* PngEncoder encoder;
Construct(t) ==
    /\ threads[t].pc = "construct"
    /\ \E outcome \in InitOutcomes :
          encoders' = Put(encoders, EncoderSlot(encoders), PngEncoder(t, FALSE, outcome))
    /\ threads' = [threads EXCEPT ![t].pc = "enter",
                                  ![t].encoder = EncoderSlot(encoders)]
    /\ UNCHANGED <<heap, m_pDbManager, queries, server, requests,
                   m_config, hasNlohmannJson, m_bInitialized, m_strError,
                   op, args, out>>

\* EncodeRGBA / SaveRGBA up to setjmp: the buffer and the sizes handed in by
\* RenderMap and HandleTileRequest pass the parameter test; an encoder whose
\* constructor failed is initialised again and the call returns false if that
\* fails too
Enter(t) ==
    /\ threads[t].pc = "enter"
    /\ \E outcome \in InitOutcomes :
          /\ encoders' = [encoders EXCEPT ![threads[t].encoder] =
                             [Initialize(@, outcome) EXCEPT !.encodes = @ + 1]]
          /\ threads' = [threads EXCEPT ![t].pc =
                            IF ~encoders'[threads[t].encoder].m_bInitialized
                            THEN "destroy"
                            ELSE IF threads[t].call = "SaveToFile" THEN "open"
                            ELSE "header"]
    /\ UNCHANGED <<heap, m_pDbManager, queries, server, requests,
                   m_config, hasNlohmannJson, m_bInitialized, m_strError,
                   op, args, out>>

\* fopen_s in SaveRGBA
OpenFile(t) ==
    /\ threads[t].pc = "open"
    /\ \/ /\ threads' = [threads EXCEPT ![t].pc = "header", ![t].file = TRUE]
          /\ heap' = [heap EXCEPT !.openFiles = @ + 1]
          /\ UNCHANGED encoders
       \/ /\ encoders' = [encoders EXCEPT ![threads[t].encoder] =
                             SetError(@, <<"Failed to open file for writing: ",
                                           "strFilePath">>)]
          /\ threads' = [threads EXCEPT ![t].pc = "destroy"]
          /\ UNCHANGED heap
    /\ UNCHANGED <<m_pDbManager, queries, server, requests,
                   m_config, hasNlohmannJson, m_bInitialized, m_strError, op, args,
                   out>>

\* libpng reports msg: PngErrorCallback stores "libpng error: " + msg and jumps
\* to the setjmp, whose branch stores its own text and returns false
LibpngError(t, msg) ==
    /\ encoders' = [encoders EXCEPT ![threads[t].encoder] =
                       SetError(SetError(@, <<"libpng error: ", msg>>),
                                IF threads[t].call = "SaveToFile"
                                THEN <<"libpng error during file writing">>
                                ELSE <<"libpng error during encoding">>)]
    /\ threads' = [threads EXCEPT ![t].pc = "destroy", ![t].message = msg]
    /\ UNCHANGED heap

\* png_set_write_fn / png_init_io, png_set_IHDR, png_write_info
WriteHeader(t) ==
    /\ threads[t].pc = "header"
    /\ \/ /\ threads' = [threads EXCEPT ![t].pc = "rows"]
          /\ UNCHANGED <<encoders, heap>>
       \/ \E msg \in HeaderErrors : LibpngError(t, msg)
    /\ UNCHANGED <<m_pDbManager, queries, server, requests,
                   m_config, hasNlohmannJson, m_bInitialized, m_strError, op, args,
                   out>>

\* new png_bytep[nHeight]
AllocateRows(t) ==
    /\ threads[t].pc = "rows"
    /\ threads' = [threads EXCEPT ![t].pc = "image", ![t].rows = TRUE]
    /\ heap' = [heap EXCEPT !.rowArrays = @ + 1]
    /\ UNCHANGED <<encoders, m_pDbManager, queries, server, requests,
                   m_config, hasNlohmannJson, m_bInitialized, m_strError,
                   op, args, out>>

\* png_write_image, png_write_end
WriteImage(t) ==
    /\ threads[t].pc = "image"
    /\ \/ /\ threads' = [threads EXCEPT ![t].pc = "release"]
          /\ UNCHANGED <<encoders, heap>>
       \/ \E msg \in ImageErrors(threads[t].call) : LibpngError(t, msg)
    /\ UNCHANGED <<m_pDbManager, queries, server, requests,
                   m_config, hasNlohmannJson, m_bInitialized, m_strError, op, args,
                   out>>

\* delete[] pRowPointers; fclose(pFile) in SaveRGBA; return true
Release(t) ==
    /\ threads[t].pc = "release"
    /\ threads' = [threads EXCEPT ![t].pc = "destroy", ![t].rows = FALSE,
                                  ![t].file = FALSE, ![t].ret = TRUE]
    /\ heap' = [rowArrays |-> heap.rowArrays - 1,
                openFiles |-> IF threads[t].file THEN heap.openFiles - 1
                              ELSE heap.openFiles]
    /\ UNCHANGED <<encoders, m_pDbManager, queries, server, requests,
                   m_config, hasNlohmannJson, m_bInitialized, m_strError,
                   op, args, out>>

\* the local encoder goes out of scope as the static function returns
Destroy(t) ==
    /\ threads[t].pc = "destroy"
    /\ encoders' = [encoders EXCEPT ![threads[t].encoder] = Destroyed(@)]
    /\ threads' = [threads EXCEPT ![t].pc = "returned"]
    /\ UNCHANGED <<heap, m_pDbManager, queries, server, requests,
                   m_config, hasNlohmannJson, m_bInitialized, m_strError,
                   op, args, out>>

\* RenderMap after a failed EncodeToMemory:
\* SetError("Failed to encode PNG: " + PngEncoder().GetError())
ReportEncodeError(t) ==
    /\ threads[t].pc = "returned"
    /\ threads[t].caller = "RenderMap"
    /\ ~threads[t].ret
    /\ \E outcome \in InitOutcomes :
          /\ m_strError' = <<"Failed to encode PNG: ">>
                               \o PngEncoder(t, TRUE, outcome).m_strError
          /\ encoders' = Put(encoders, Len(encoders) + 1,
                             Destroyed(PngEncoder(t, TRUE, outcome)))
    /\ threads' = [threads EXCEPT ![t].pc = "reported"]
    /\ UNCHANGED <<heap, m_pDbManager, queries, server, requests,
                   m_config, hasNlohmannJson, m_bInitialized, op, args, out>>

\* the caller goes on with something else
PngReturn(t) ==
    /\ \/ threads[t].pc = "reported"
       \/ /\ threads[t].pc = "returned"
          /\ (threads[t].caller = "RenderMap" => threads[t].ret)
    /\ threads' = [threads EXCEPT ![t] = IdleFrame]
    /\ UNCHANGED <<encoders, heap, m_pDbManager, queries, server, requests,
                   m_config, hasNlohmannJson, m_bInitialized,
                   m_strError, op, args, out>>

InitPng ==
    /\ m_config \in {c \in Configs : c.m_nMaxImageWidth = DefaultMaxImageWidth}
    /\ hasNlohmannJson = TRUE
    /\ m_bInitialized = TRUE
    /\ m_strError = <<>>
    /\ op = "idle"
    /\ args = <<>>
    /\ out = <<>>
    /\ NoPngCalls
    /\ NoServerCalls

NextPng ==
    \E t \in Threads :
        \/ PngCall(t)
        \/ Construct(t)
        \/ Enter(t)
        \/ OpenFile(t)
        \/ WriteHeader(t)
        \/ AllocateRows(t)
        \/ WriteImage(t)
        \/ Release(t)
        \/ Destroy(t)
        \/ ReportEncodeError(t)
        \/ PngReturn(t)

SpecPng == InitPng /\ [][NextPng]_vars

\* an error text holds the message libpng gave
ContainsMessage(strError, msg) == \E i \in DOMAIN strError : strError[i] = msg

\* C16: when libpng reports an error during EncodeRGBA or SaveRGBA, the call
\* returns false and the error text the caller can read afterwards, GetError of
\* the encoder and the RenderEngine error RenderMap sets, contains the
\* message of libpng.
C16_Claimed_LibraryMessageKept ==
    \A t \in Threads :
        threads[t].message # ""
            => /\ ~threads[t].ret
               /\ threads[t].pc = "destroy"
                    => ContainsMessage(encoders[threads[t].encoder].m_strError,
                                       threads[t].message)
               /\ threads[t].pc = "reported"
                    => ContainsMessage(m_strError, threads[t].message)

\* the threads that hold a row-pointer array, and those that hold an open file,
\* inside EncodeRGBA / SaveRGBA
InsideWithRows == {t \in Threads : threads[t].pc \in {"image", "release"}}
InsideWithFile ==
    {t \in Threads : /\ threads[t].call = "SaveToFile"
                     /\ threads[t].pc \in {"header", "rows", "image", "release"}}

\* C17: every exit path of EncodeRGBA and SaveRGBA, the libpng error path after
\* the row-pointer array was allocated or the file was opened included,
\* releases the array and closes the file: only calls still inside hold any.
C17_Claimed_ReleasedOnEveryExit ==
    /\ heap.rowArrays = Cardinality(InsideWithRows)
    /\ heap.openFiles = Cardinality(InsideWithFile)

\* the positions of a thread between the construction of its encoder and the
\* end of its destructor
HoldsEncoder == {"enter", "open", "header", "rows", "image", "release", "destroy"}

\* C18: concurrent calls never share encoder state: every EncodeToMemory /
\* SaveToFile call has its own PngEncoder, alive and owned by no other call,
\* used for exactly one encode and destroyed before the call returns.
C18_OwnEncoderPerCall ==
    /\ \A t \in Threads :
          threads[t].pc \in HoldsEncoder
              => /\ threads[t].encoder \in DOMAIN encoders
                 /\ encoders[threads[t].encoder].owner = t
                 /\ encoders[threads[t].encoder].alive
                 /\ ~encoders[threads[t].encoder].temporary
                 /\ encoders[threads[t].encoder].encodes
                        = (IF threads[t].pc = "enter" THEN 0 ELSE 1)
                 /\ \A u \in Threads \ {t} :
                        threads[u].pc \in HoldsEncoder
                            => threads[u].encoder # threads[t].encoder
    /\ \A id \in DOMAIN encoders :
          /\ encoders[id].alive
                => /\ threads[encoders[id].owner].pc \in HoldsEncoder
                   /\ threads[encoders[id].owner].encoder = id
          /\ (~encoders[id].alive /\ ~encoders[id].temporary)
                => encoders[id].encodes = 1

\* a render request and a tile request are both inside their encode, each on
\* its own live encoder
C18_Witness ==
    /\ threads[1].caller = "RenderMap"
    /\ threads[2].caller = "HandleTileRequest"
    /\ threads[1].pc = "image"
    /\ threads[2].pc = "header"
    /\ threads[1].encoder # threads[2].encoder
    /\ encoders[threads[1].encoder].alive
    /\ encoders[threads[2].encoder].alive
    /\ encoders[threads[1].encoder].encodes = 1
    /\ encoders[threads[2].encoder].encodes = 1

----------------------------------------------------------------------------
(* DatabaseManager: the connection pool and the layer queries, SpecDb *)

(* A connection (sqlite3* ) is a positive number, nullptr is 0.  A layer id  *)
(* or name is a string that is only compared; NULL is a column without a    *)
(* value.  The database file is the layers table it holds: whether the      *)
(* table exists, and its rows in the order of their names.                  *)

\* largest pool size passed to the constructor
MaxPoolSize == 2

\* the pool size of a DatabaseManager constructed with poolSize <= 0
DefaultPoolSize == 5

NULL == "(NULL)"

\* LayerInfo(id, name, ...) and the default-constructed LayerInfo()
LayerInfo(id, name) == [id |-> id, name |-> name]
EmptyLayerInfo == LayerInfo("", "")

\* the three layers of the mock data
MockLayers ==
    <<LayerInfo("roads", "Roads"), LayerInfo("buildings", "Buildings"),
      LayerInfo("points", "Points of Interest")>>

\* the database files: without a layers table, with an empty one, and with
\* rows; one row has no id
LayerTables ==
    { [exists |-> FALSE, rows |-> <<>>],
      [exists |-> TRUE, rows |-> <<>>],
      [exists |-> TRUE, rows |-> <<[id |-> "rivers", name |-> "Rivers"]>>],
      [exists |-> TRUE, rows |-> <<[id |-> "rivers", name |-> "Rivers"],
                                   [id |-> "roads", name |-> "Streets"]>>],
      [exists |-> TRUE, rows |-> <<[id |-> NULL, name |-> "Draft"]>>] }

\* DatabaseManager(dbPath, poolSize) with InitializePool: m_poolSize opens, of
\* which the first 'opens' succeed and are pushed
DatabaseManager(poolSize, opens, table) ==
    [m_poolSize |-> IF poolSize > 0 THEN poolSize ELSE DefaultPoolSize,
     m_initialized |-> opens > 0,
     m_connectionPool |-> [i \in 1..opens |-> i],
     opened |-> opens,
     table |-> table]

\* GetConnection under the pool mutex: with an empty queue one more connection
\* is opened (nullptr when that fails), otherwise the front is popped
GetConnection(manager, emergencyOpens) ==
    IF manager.m_connectionPool = <<>>
    THEN IF emergencyOpens
         THEN [manager |-> [manager EXCEPT !.opened = @ + 1],
               conn |-> manager.opened + 1]
         ELSE [manager |-> manager, conn |-> 0]
    ELSE [manager |-> [manager EXCEPT !.m_connectionPool = Tail(@)],
          conn |-> Head(manager.m_connectionPool)]

\* a release that closes the connection and pushes nothing
ReleaseConnection_closing(manager, conn) == manager

\* ReleaseConnection under the pool mutex: a connection that is not nullptr is
\* pushed to the back of the queue
ReleaseConnection(manager, conn) ==
    IF conn = 0 THEN manager
    ELSE [manager EXCEPT !.m_connectionPool = Append(@, conn)]

\* sqlite3_column_text of a column: nullptr for NULL, stored as ""
ColumnText(value) == IF value = NULL THEN "" ELSE value

\* the rows of 'SELECT ... FROM layers WHERE id = ?': NULL equals nothing
RowsWithId(table, layerId) ==
    SelectSeq(table.rows, LAMBDA row : row.id # NULL /\ row.id = layerId)

\* what GetAllLayers returns once it holds a connection: the mock data when
\* the statement cannot be prepared or no row comes back, else one LayerInfo
\* per row
GetAllLayers(table) ==
    IF ~table.exists \/ table.rows = <<>> THEN MockLayers
    ELSE [i \in 1..Len(table.rows) |->
            LayerInfo(ColumnText(table.rows[i].id), ColumnText(table.rows[i].name))]

\* what GetLayerById returns once it holds a connection: LayerInfo() when the
\* statement cannot be prepared, the first row with the id, else the mock
\* layer of that id or LayerInfo()
GetLayerById(table, layerId) ==
    IF ~table.exists THEN EmptyLayerInfo
    ELSE IF RowsWithId(table, layerId) # <<>>
    THEN LayerInfo(ColumnText(RowsWithId(table, layerId)[1].id),
                   ColumnText(RowsWithId(table, layerId)[1].name))
    ELSE IF \E i \in 1..Len(MockLayers) : MockLayers[i].id = layerId
    THEN MockLayers[CHOOSE i \in 1..Len(MockLayers) : MockLayers[i].id = layerId]
    ELSE EmptyLayerInfo

\* what a query returns without a connection (pool not initialized, or
\* GetConnection gave nullptr)
WithoutConnection(query) ==
    CASE query = "GetAllLayers" -> <<>>
      [] query = "GetLayerById" -> EmptyLayerInfo
      [] query = "IsHealthy" -> FALSE

\* the calls the request handlers make
LayerIds == {"roads", "rivers", "nowhere", ""}
QueryCalls ==
    {<<"GetAllLayers", "">>, <<"IsHealthy", "">>}
        \cup {<<"GetLayerById", layerId>> : layerId \in LayerIds}

\* a handler calls GetAllLayers, GetLayerById or IsHealthy; without an
\* initialized pool the call returns at once
QueryCall(t) ==
    /\ queries[t].pc = "idle"
    /\ \E call \in QueryCalls :
          queries' = [queries EXCEPT ![t] =
              IF m_pDbManager.m_initialized
              THEN [QueryIdle EXCEPT !.pc = "GetConnection", !.query = call[1],
                                     !.layerId = call[2]]
              ELSE [QueryIdle EXCEPT !.pc = "return", !.query = call[1],
                                     !.layerId = call[2],
                                     !.result = WithoutConnection(call[1])]]
    /\ UNCHANGED <<m_pDbManager, server, requests, threads, encoders, heap,
                   m_config, hasNlohmannJson, m_bInitialized, m_strError, op,
                   args, out>>

\* sqlite3* conn = GetConnection(); if (!conn) return ...
TakeConnection(t) ==
    /\ queries[t].pc = "GetConnection"
    /\ \E emergencyOpens \in BOOLEAN :
       \E got \in {GetConnection(m_pDbManager, emergencyOpens)} :
          /\ m_pDbManager' = got.manager
          /\ queries' = [queries EXCEPT ![t] =
                IF got.conn = 0
                THEN [@ EXCEPT !.pc = "return",
                               !.result = WithoutConnection(queries[t].query)]
                ELSE [@ EXCEPT !.pc = "statement", !.conn = got.conn,
                               !.obtained = @ + 1]]
    /\ UNCHANGED <<server, requests, threads, encoders, heap, m_config,
                   hasNlohmannJson, m_bInitialized, m_strError, op, args, out>>

\* sqlite3_prepare_v2, sqlite3_step, sqlite3_finalize on the connection held
RunStatement(t) ==
    /\ queries[t].pc = "statement"
    /\ \E selectOne \in BOOLEAN :
          queries' = [queries EXCEPT ![t].pc = "ReleaseConnection", ![t].result =
              CASE queries[t].query = "GetAllLayers" ->
                       GetAllLayers(m_pDbManager.table)
                [] queries[t].query = "GetLayerById" ->
                       GetLayerById(m_pDbManager.table, queries[t].layerId)
                [] queries[t].query = "IsHealthy" -> selectOne]
    /\ UNCHANGED <<m_pDbManager, server, requests, threads, encoders, heap,
                   m_config, hasNlohmannJson, m_bInitialized, m_strError, op,
                   args, out>>

\* ReleaseConnection(conn) on the path the statement took
GiveBack(t) ==
    /\ queries[t].pc = "ReleaseConnection"
    /\ m_pDbManager' = ReleaseConnection(m_pDbManager, queries[t].conn)
    /\ queries' = [queries EXCEPT ![t].pc = "return", ![t].conn = 0,
                                  ![t].released = @ + 1]
    /\ UNCHANGED <<server, requests, threads, encoders, heap, m_config,
                   hasNlohmannJson, m_bInitialized, m_strError, op, args, out>>

\* the query returns to its handler
QueryReturn(t) ==
    /\ queries[t].pc = "return"
    /\ queries' = [queries EXCEPT ![t] = QueryIdle]
    /\ UNCHANGED <<m_pDbManager, server, requests, threads, encoders, heap,
                   m_config, hasNlohmannJson, m_bInitialized, m_strError, op,
                   args, out>>

InitDb ==
    /\ m_config \in {c \in Configs : c.m_nMaxImageWidth = DefaultMaxImageWidth}
    /\ hasNlohmannJson = TRUE
    /\ m_bInitialized = TRUE
    /\ m_strError = ""
    /\ op = "idle"
    /\ args = <<>>
    /\ out = <<>>
    /\ NoPngCalls
    /\ \E poolSize \in 0..MaxPoolSize, table \in LayerTables :
       \E opens \in {0, 1, IF poolSize > 0 THEN poolSize ELSE DefaultPoolSize} :
          m_pDbManager = DatabaseManager(poolSize, opens, table)
    /\ queries = [t \in Threads |-> QueryIdle]
    /\ server = ServerConstructed
    /\ requests = [t \in Threads |-> RequestIdle]

NextDb ==
    \E t \in Threads :
        \/ QueryCall(t)
        \/ TakeConnection(t)
        \/ RunStatement(t)
        \/ GiveBack(t)
        \/ QueryReturn(t)

SpecDb == InitDb /\ [][NextDb]_vars

\* C24: under any interleaving of concurrent layer queries the connection
\* pool queue never holds more connections than the configured pool size.
C24_Claimed_PoolNeverOverPoolSize ==
    Len(m_pDbManager.m_connectionPool) <= m_pDbManager.m_poolSize

\* the connections that some query holds
HeldConnections == {queries[t].conn : t \in Threads} \ {0}

\* C25: every connection obtained by GetAllLayers, GetLayerById or IsHealthy
\* is given back exactly once on every return path: a returning query that
\* obtained a connection released it once and holds none, no connection is in
\* the queue twice or both held and queued, and with no query in progress
\* every open connection is in the queue.
C25_ConnectionGivenBackOnce ==
    /\ \A t \in Threads :
          /\ queries[t].pc \in {"return", "idle"}
                => /\ queries[t].released = queries[t].obtained
                   /\ queries[t].conn = 0
          /\ queries[t].obtained <= 1
          /\ queries[t].released <= queries[t].obtained
    /\ \A i, j \in 1..Len(m_pDbManager.m_connectionPool) :
          i # j => m_pDbManager.m_connectionPool[i] # m_pDbManager.m_connectionPool[j]
    /\ \A i \in 1..Len(m_pDbManager.m_connectionPool) :
          m_pDbManager.m_connectionPool[i] \notin HeldConnections
    /\ (\A t \in Threads : queries[t].pc = "idle")
          => {m_pDbManager.m_connectionPool[i] :
                i \in 1..Len(m_pDbManager.m_connectionPool)}
             = 1..m_pDbManager.opened

\* both threads have returned from queries of a one-connection pool, one of
\* them on the path where the statement could not be prepared, and the other
\* with an emergency connection
C25_Witness ==
    /\ \A t \in Threads : queries[t].pc = "return" /\ queries[t].released = 1
    /\ \E t \in Threads : queries[t].query = "GetLayerById"
    /\ \E t \in Threads : queries[t].query = "GetAllLayers"
    /\ ~m_pDbManager.table.exists
    /\ m_pDbManager.opened = 2
    /\ Len(m_pDbManager.m_connectionPool) = 2

\* C26: in every database state (pool not initialized, layers table missing,
\* empty or populated) each layer id that GetAllLayers returns is resolvable
\* by GetLayerById: the lookup returns a layer with the same, non-empty id.
C26_Claimed_ListedLayerResolvable ==
    \A t \in Threads :
        (queries[t].pc = "return" /\ queries[t].query = "GetAllLayers")
            => \A i \in 1..Len(queries[t].result) :
                  /\ queries[t].result[i].id # ""
                  /\ GetLayerById(m_pDbManager.table, queries[t].result[i].id).id
                        = queries[t].result[i].id

----------------------------------------------------------------------------
(* HttpServer::Start, the worker thread, Stop and ~HttpServer: SpecServer *)

(* m_pServer is "nullptr", "created" or "stopped" (stop() was called on it). *)
(* A worker thread is "started" (its lambda has not reached listen's accept  *)
(* loop), "listening" or "finished" (the lambda returned; the std::thread is *)
(* joinable until it is joined).  server.pc tells where the thread that owns *)
(* the HttpServer stands: "idle" between calls, "sleep" in Start, "join" in  *)
(* Stop, "destroyed" after the destructor.                                   *)

\* number of Start calls of one behaviour
MaxStarts == 3

\* Start up to the sleep: a running server returns true at once; otherwise the
\* httplib server is made, the flag is set and the worker is emplaced.  When
\* make_unique or the std::thread constructor throws, the catch stores the
\* text and returns false.
Start(srv, thrown) ==
    IF srv.m_bRunning
    THEN [srv EXCEPT !.last = "Start", !.ret = TRUE, !.starts = @ + 1]
    ELSE IF thrown = "make_unique"
    THEN [srv EXCEPT !.last = "Start", !.ret = FALSE, !.starts = @ + 1,
                     !.m_strError = "Exception in Start: "]
    ELSE IF thrown = "thread"
    THEN [srv EXCEPT !.last = "Start", !.ret = FALSE, !.starts = @ + 1,
                     !.m_pServer = "created", !.m_bRunning = TRUE,
                     !.m_strError = "Exception in Start: "]
    ELSE [srv EXCEPT !.pc = "sleep", !.starts = @ + 1, !.created = @ + 1,
                     !.m_pServer = "created", !.m_bRunning = TRUE,
                     !.m_vecWorkerThreads = Append(@, "started")]

\* Stop up to the joins: nothing when the flag is false; otherwise stop() on
\* the httplib server and the flag cleared
Stop(srv, caller) ==
    IF ~srv.m_bRunning THEN [srv EXCEPT !.last = caller]
    ELSE [srv EXCEPT !.pc = "join", !.last = caller, !.m_bRunning = FALSE,
                     !.m_pServer = IF @ = "nullptr" THEN @ ELSE "stopped"]

\* bool HttpServer::Start() is called
StartCall ==
    /\ server.pc = "idle"
    /\ server.last # "~HttpServer"
    /\ server.starts < MaxStarts
    /\ \E thrown \in {"", "make_unique", "thread"} :
          server' = Start(server, thrown)
    /\ UNCHANGED <<m_pDbManager, queries, requests, threads, encoders, heap,
                   m_config, hasNlohmannJson, m_bInitialized, m_strError, op,
                   args, out>>

\* the worker enters listen's accept loop
WorkerListens(i) ==
    /\ i <= Len(server.m_vecWorkerThreads)
    /\ server.m_vecWorkerThreads[i] = "started"
    /\ server' = [server EXCEPT !.m_vecWorkerThreads[i] = "listening"]
    /\ UNCHANGED <<m_pDbManager, queries, requests, threads, encoders, heap,
                   m_config, hasNlohmannJson, m_bInitialized, m_strError, op,
                   args, out>>

\* listen returns false (the port cannot be bound, or the socket fails):
\* SetError("Failed to start server on ..."), m_bRunning = false
WorkerListenFails(i) ==
    /\ i <= Len(server.m_vecWorkerThreads)
    /\ server.m_vecWorkerThreads[i] \in {"started", "listening"}
    /\ server' = [server EXCEPT !.m_vecWorkerThreads[i] = "finished",
                                !.m_strError = "Failed to start server on",
                                !.m_bRunning = FALSE]
    /\ UNCHANGED <<m_pDbManager, queries, requests, threads, encoders, heap,
                   m_config, hasNlohmannJson, m_bInitialized, m_strError, op,
                   args, out>>

\* listen returns true after stop()
WorkerStops(i) ==
    /\ i <= Len(server.m_vecWorkerThreads)
    /\ server.m_vecWorkerThreads[i] = "listening"
    /\ server.m_pServer = "stopped"
    /\ server' = [server EXCEPT !.m_vecWorkerThreads[i] = "finished"]
    /\ UNCHANGED <<m_pDbManager, queries, requests, threads, encoders, heap,
                   m_config, hasNlohmannJson, m_bInitialized, m_strError, op,
                   args, out>>

\* the sleep of 100 ms is over: return m_bRunning
StartReturn ==
    /\ server.pc = "sleep"
    /\ server' = [server EXCEPT !.pc = "idle", !.last = "Start",
                                !.ret = server.m_bRunning]
    /\ UNCHANGED <<m_pDbManager, queries, requests, threads, encoders, heap,
                   m_config, hasNlohmannJson, m_bInitialized, m_strError, op,
                   args, out>>

\* void HttpServer::Stop() is called, by main or by the destructor
StopCall(caller) ==
    /\ server.pc = "idle"
    /\ server.last # "~HttpServer"
    /\ server' = Stop(server, caller)
    /\ UNCHANGED <<m_pDbManager, queries, requests, threads, encoders, heap,
                   m_config, hasNlohmannJson, m_bInitialized, m_strError, op,
                   args, out>>

\* every joinable worker is joined (each join waits for its lambda to
\* return), the list is cleared and m_pServer reset; Stop returns
JoinWorkers ==
    /\ server.pc = "join"
    /\ \A i \in 1..Len(server.m_vecWorkerThreads) :
          server.m_vecWorkerThreads[i] = "finished"
    /\ server' = [server EXCEPT !.pc = "idle",
                                !.joined = @ + Len(server.m_vecWorkerThreads),
                                !.m_vecWorkerThreads = <<>>,
                                !.m_pServer = "nullptr"]
    /\ UNCHANGED <<m_pDbManager, queries, requests, threads, encoders, heap,
                   m_config, hasNlohmannJson, m_bInitialized, m_strError, op,
                   args, out>>

\* the members are destroyed after the destructor's Stop() has returned: a
\* std::thread that is still joinable calls std::terminate
DestroyMembers ==
    /\ server.pc = "idle"
    /\ server.last = "~HttpServer"
    /\ server' = [server EXCEPT !.pc = "destroyed",
                                !.terminated = server.m_vecWorkerThreads # <<>>]
    /\ UNCHANGED <<m_pDbManager, queries, requests, threads, encoders, heap,
                   m_config, hasNlohmannJson, m_bInitialized, m_strError, op,
                   args, out>>

InitServer ==
    /\ m_config \in {c \in Configs : c.m_nMaxImageWidth = DefaultMaxImageWidth}
    /\ hasNlohmannJson = TRUE
    /\ m_bInitialized = TRUE
    /\ m_strError = ""
    /\ op = "idle"
    /\ args = <<>>
    /\ out = <<>>
    /\ NoPngCalls
    /\ NoServerCalls

NextServer ==
    \/ StartCall
    \/ \E i \in 1..MaxStarts :
          \/ WorkerListens(i)
          \/ WorkerListenFails(i)
          \/ WorkerStops(i)
    \/ StartReturn
    \/ \E caller \in {"Stop", "~HttpServer"} : StopCall(caller)
    \/ JoinWorkers
    \/ DestroyMembers

SpecServer == InitServer /\ [][NextServer]_vars

\* C23: after any sequence of Start and Stop, once Stop has returned (and
\* hence when the HttpServer is destroyed) every worker thread that Start
\* created has been joined and the worker list is empty, also when listen
\* failed and the worker cleared the running flag before Stop.
C23_Claimed_StopLeavesNoWorker ==
    (server.pc \in {"idle", "destroyed"} /\ server.last \in {"Stop", "~HttpServer"})
        => /\ server.m_vecWorkerThreads = <<>>
           /\ server.joined = server.created
           /\ ~server.terminated

----------------------------------------------------------------------------
(* Concurrent /generate requests on the one RenderEngine: SpecRace *)

(* HandleGenerateRequest after its request was parsed and validated, step by *)
(* step: RenderMap runs on the thread's own vectors; a failing RenderMap     *)
(* assigns the engine's m_strError in SetError; the handler then reads it    *)
(* through GetError.  No lock guards the string, so an assignment has a      *)
(* beginning and an end, and a read or a second assignment in between is a   *)
(* data race whose result is the old text, either new text or a mixture.     *)

\* a std::string read or written while another thread assigns it
Torn == "(torn)"

\* the threads other than t that are inside SetError's assignment
Assigning(t) == {u \in Threads \ {t} : requests[u].pc = "SetError"}

\* the texts an access of m_strError by t can meet
RacedTexts(t, unraced) ==
    IF Assigning(t) = {} THEN {unraced}
    ELSE {unraced, Torn} \cup {m_strError} \cup {requests[u].failure : u \in Assigning(t)}

\* validated requests, which fail in RenderMap when libpng does
RaceRequests ==
    { MapRequest(BoxScenario, 1, 1, layers, NoStyles, ColorWhite) :
        layers \in {<<>>, <<NameRoads>>} }

\* a request reaches m_pRenderEngine->RenderMap(request, vecPngData), which
\* runs up to its return or its SetError
RenderMapRuns(t) ==
    /\ requests[t].pc = "idle"
    /\ \E request \in RaceRequests, png \in PngOutcomes :
       \E render \in {RenderMap(request, <<>>, m_bInitialized, m_config, png)} :
          requests' = [requests EXCEPT ![t] =
              [RequestIdle EXCEPT !.pc = "RenderMap", !.request = request,
                                  !.ret = render.ret, !.failure = render.strError]]
    /\ UNCHANGED <<m_pDbManager, queries, server, threads, encoders, heap,
                   m_config, hasNlohmannJson, m_bInitialized, m_strError, op,
                   args, out>>

\* RenderMap returns true: the PNG is answered
RenderMapSucceeds(t) ==
    /\ requests[t].pc = "RenderMap"
    /\ requests[t].ret # "false"
    /\ requests' = [requests EXCEPT ![t].pc = "responded",
                      ![t].response = [strContentType |-> "image/png", code |-> "",
                                       message |-> <<>>, data |-> <<>>]]
    /\ UNCHANGED <<m_pDbManager, queries, server, threads, encoders, heap,
                   m_config, hasNlohmannJson, m_bInitialized, m_strError, op,
                   args, out>>

\* RenderMap fails: SetError begins to assign m_strError
SetErrorBegins(t) ==
    /\ requests[t].pc = "RenderMap"
    /\ requests[t].ret = "false"
    /\ requests[t].failure # NoSetError
    /\ requests' = [requests EXCEPT ![t].pc = "SetError"]
    /\ UNCHANGED <<m_pDbManager, queries, server, threads, encoders, heap,
                   m_config, hasNlohmannJson, m_bInitialized, m_strError, op,
                   args, out>>

\* the assignment is done and RenderMap returns false
SetErrorEnds(t) ==
    /\ requests[t].pc = "SetError"
    /\ m_strError' \in RacedTexts(t, requests[t].failure)
    /\ requests' = [requests EXCEPT ![t].pc = "failed"]
    /\ UNCHANGED <<m_pDbManager, queries, server, threads, encoders, heap,
                   m_config, hasNlohmannJson, m_bInitialized, op, args, out>>

\* GenerateErrorResponse("RENDER_FAILED", m_pRenderEngine->GetError())
ReadsError(t) ==
    /\ requests[t].pc = "failed"
    /\ \E text \in RacedTexts(t, m_strError) :
          requests' = [requests EXCEPT ![t].pc = "responded",
                         ![t].response = ErrorResponse("RENDER_FAILED", <<text>>)]
    /\ UNCHANGED <<m_pDbManager, queries, server, threads, encoders, heap,
                   m_config, hasNlohmannJson, m_bInitialized, m_strError, op,
                   args, out>>

\* the response is sent and the thread takes the next request
ResponseSent(t) ==
    /\ requests[t].pc = "responded"
    /\ requests' = [requests EXCEPT ![t] = RequestIdle]
    /\ UNCHANGED <<m_pDbManager, queries, server, threads, encoders, heap,
                   m_config, hasNlohmannJson, m_bInitialized, m_strError, op,
                   args, out>>

InitRace ==
    /\ m_config \in {c \in Configs : c.m_nMaxImageWidth = DefaultMaxImageWidth}
    /\ hasNlohmannJson = TRUE
    /\ m_bInitialized = TRUE
    /\ m_strError = ""
    /\ op = "idle"
    /\ args = <<>>
    /\ out = <<>>
    /\ NoPngCalls
    /\ NoServerCalls

NextRace ==
    \E t \in Threads :
        \/ RenderMapRuns(t)
        \/ RenderMapSucceeds(t)
        \/ SetErrorBegins(t)
        \/ SetErrorEnds(t)
        \/ ReadsError(t)
        \/ ResponseSent(t)

SpecRace == InitRace /\ [][NextRace]_vars

\* C22: with several worker threads calling RenderMap on the one shared
\* RenderEngine, the error text of a RENDER_FAILED response is the one set by
\* that same request's failed RenderMap: no interleaving lets a request
\* report, or read half-written, the error of another request.
C22_Claimed_OwnErrorReported ==
    \A t \in Threads :
        (requests[t].pc = "responded" /\ requests[t].response.code = "RENDER_FAILED")
            => requests[t].response.message = <<requests[t].failure>>

====
